---- MODULE Spec2Model ----
(***************************************************************************)
(* msdf-atlas-gen, standalone console program (src/msdf-atlas-gen/main.cpp) *)
(*                                                                         *)
(* The model follows main() from the point where the command line has been *)
(* parsed and the configuration fixed up: packing, edge coloring, bitmap   *)
(* generation (makeAtlas) and the output sinks.                            *)
(*                                                                         *)
(* TightAtlasPacker, Workload, ImmediateAtlasGenerator and the sinks are   *)
(* library code that main.cpp only calls; they are modelled from spec.md   *)
(* (sections 4.2, 4.4, 4.5, 6).                                            *)
(***************************************************************************)
EXTENDS Integers, Sequences, FiniteSets, TLC

(***************************************************************************)
(* unsigned long long arithmetic.  A 64-bit value is a tuple of 8 bytes,   *)
(* least significant first; every operation wraps modulo 2^64 as unsigned  *)
(* arithmetic does in C++.                                                 *)
(***************************************************************************)
RECURSIVE Carry(_, _, _)
Carry(cols, k, c) ==
    IF k > 8 THEN <<>>
    ELSE LET v == cols[k] + c
         IN  <<v % 256>> \o Carry(cols, k + 1, v \div 256)

U64FromInt(n) == Carry(<<n, 0, 0, 0, 0, 0, 0, 0>>, 1, 0)

U64Zero == U64FromInt(0)

Add64(a, b) == Carry([k \in 1..8 |-> a[k] + b[k]], 1, 0)

RECURSIVE ColumnSum(_, _, _, _)
ColumnSum(a, b, k, i) ==
    IF i > k THEN 0 ELSE a[i] * b[k + 1 - i] + ColumnSum(a, b, k, i + 1)

Mul64(a, b) == Carry([k \in 1..8 |-> ColumnSum(a, b, k, 1)], 1, 0)

RECURSIVE XorByte(_, _)
XorByte(x, y) ==
    IF x = 0 THEN y
    ELSE IF y = 0 THEN x
    ELSE (((x % 2) + (y % 2)) % 2) + 2 * XorByte(x \div 2, y \div 2)

Xor64(a, b) == [k \in 1..8 |-> XorByte(a[k], b[k])]

\* A decimal literal of the source, written in groups of nine digits:
\* hi * 10^18 + mid * 10^9 + lo.
U64FromDecimal(hi, mid, lo) ==
    Add64(Mul64(Add64(Mul64(U64FromInt(hi), U64FromInt(1000000000)),
                      U64FromInt(mid)),
                U64FromInt(1000000000)),
          U64FromInt(lo))

\* #define LCG_MULTIPLIER 6364136223846793005ull
LCG_MULTIPLIER == U64FromDecimal(6, 364136223, 846793005)

\* #define LCG_INCREMENT 1442695040888963407ull
LCG_INCREMENT == U64FromDecimal(1, 442695040, 888963407)

\* #define DEFAULT_SIZE 32.0
DEFAULT_SIZE == 32

\* #define DEFAULT_PIXEL_RANGE 2.0
DEFAULT_PIXEL_RANGE == 2

(***************************************************************************)
(* Bounds of the model.                                                    *)
(***************************************************************************)
MaxGlyphs == 3
MaxThreads == 2
MaxSpacingArg == 1
AtlasSideLimit == 16
ScaleLimit == 48
MaxArgs == 2
MaxFontArgs == 5

(***************************************************************************)
(* Configuration values.                                                   *)
(***************************************************************************)
ImageTypes == {"HARD_MASK", "SOFT_MASK", "SDF", "PSDF", "MSDF", "MTSDF"}

ImageFormats ==
    {"PNG", "BMP", "TIFF", "RGBA", "FL32", "TEXT", "TEXT_FLOAT",
     "BINARY", "BINARY_FLOAT", "BINARY_FLOAT_BE"}

DimensionsConstraints ==
    {"POWER_OF_TWO_SQUARE", "POWER_OF_TWO_RECTANGLE", "SQUARE",
     "EVEN_SQUARE", "MULTIPLE_OF_FOUR_SQUARE"}

\* bool floatingPointFormat = ( ... )
FloatingPointFormat(imageFormat) ==
    imageFormat \in {"TIFF", "FL32", "TEXT_FLOAT", "BINARY_FLOAT", "BINARY_FLOAT_BE"}

\* bool layoutOnly = !(config.arteryFontFilename || config.imageFilename)
LayoutOnly(arteryFontFilename, imageFilename) ==
    ~(arteryFontFilename \/ imageFilename)

\* The spacing main() hands to setSpacing; packingSpacing is -1 when
\* -spacing was not given.
SelectSpacing(imageType, packingSpacing) ==
    IF imageType \in {"SDF", "MSDF", "MTSDF"}
    THEN IF packingSpacing > 0 THEN packingSpacing ELSE 0
    ELSE -1

\* A variant that counts psdf among the types that are colored.
MultiChannelWithPsdf(imageType) == imageType \in {"PSDF", "MSDF", "MTSDF"}

\* config.imageType == MSDF || config.imageType == MTSDF
MultiChannel(imageType) == imageType \in {"MSDF", "MTSDF"}

Max(a, b) == IF a >= b THEN a ELSE b

(***************************************************************************)
(* TightAtlasPacker (spec.md 4.2).  For every glyph the packer computes a  *)
(* pixel box and assigns it a position such that every box lies inside    *)
(* the atlas and any two boxes are at least `spacing` pixels apart.  The   *)
(* packing modelled here is a shelf packing in glyph order that keeps      *)
(* neighbours exactly `spacing` apart: the next box of a row starts at     *)
(* x + w + spacing, the next row at y + rowHeight + spacing.               *)
(***************************************************************************)
CeilDiv(a, b) == (a + b - 1) \div b

\* The pixel box of glyph i at scale s (pixels per em): the glyphs are
\* 3/32 em high and alternately 3/32 and 4/32 em wide.
GlyphBox(i, s) ==
    [w |-> CeilDiv((3 + (i % 2)) * s, 32), h |-> CeilDiv(3 * s, 32)]

RECURSIVE ShelfPack(_, _, _, _, _, _, _, _, _)
ShelfPack(n, i, cx, cy, rowH, W, H, sp, s) ==
    IF i >= n THEN <<>>
    ELSE LET b     == GlyphBox(i, s)
             here  == cx + b.w <= W /\ cy + b.h <= H
             ny    == cy + rowH + sp
             below == rowH > 0 /\ b.w <= W /\ ny + b.h <= H
         IN  IF here
             THEN <<[placed |-> TRUE, x |-> cx, y |-> cy]>>
                  \o ShelfPack(n, i + 1, cx + b.w + sp, cy, Max(rowH, b.h), W, H, sp, s)
             ELSE IF below
             THEN <<[placed |-> TRUE, x |-> 0, y |-> ny]>>
                  \o ShelfPack(n, i + 1, b.w + sp, ny, b.h, W, H, sp, s)
             ELSE <<[placed |-> FALSE, x |-> 0, y |-> 0]>>
                  \o ShelfPack(n, i + 1, cx, cy, rowH, W, H, sp, s)

\* Placement of glyphs 0..n-1 in a W x H atlas at scale s; element i+1 is
\* glyph i's.
TightPlacement(n, W, H, sp, s) == ShelfPack(n, 0, 0, 0, 0, W, H, sp, s)

\* The number of glyphs that could not be placed (pack()'s positive outcome).
Remaining(placement) ==
    Cardinality({k \in 1..Len(placement) : ~placement[k].placed})

IsPowerOfTwo(v) == v \in {1, 2, 4, 8, 16, 32, 64}

ConstraintAllows(c, w, h) ==
    CASE c = "POWER_OF_TWO_SQUARE"    -> w = h /\ IsPowerOfTwo(w)
      [] c = "POWER_OF_TWO_RECTANGLE" -> IsPowerOfTwo(w) /\ IsPowerOfTwo(h)
      [] c = "SQUARE"                 -> w = h
      [] c = "EVEN_SQUARE"            -> w = h /\ w % 2 = 0
      [] c = "MULTIPLE_OF_FOUR_SQUARE" -> w = h /\ w % 4 = 0

\* Atlas sizes that satisfy the constraint and admit all n boxes.
FittingDimensions(c, n, sp, s) ==
    {d \in (1..AtlasSideLimit) \X (1..AtlasSideLimit) :
        /\ ConstraintAllows(c, d[1], d[2])
        /\ Remaining(TightPlacement(n, d[1], d[2], sp, s)) = 0}

Abs(v) == IF v < 0 THEN -v ELSE v

\* The smallest area wins; ties go to the size closer to a square.
Better(d, e) ==
    \/ d[1] * d[2] < e[1] * e[2]
    \/ d[1] * d[2] = e[1] * e[2] /\ Abs(d[1] - d[2]) < Abs(e[1] - e[2])

BestDimensions(c, n, sp, s) ==
    LET F == FittingDimensions(c, n, sp, s)
    IN  {d \in F : \A e \in F : ~Better(e, d)}

\* The result of pack() together with what getDimensions, getScale,
\* hasCutoff, getColumns and getRows give afterwards; boxes[k] is the box of
\* glyph k-1.
PackResult(outcome, W, H, s, cutoff, cols, rows, boxes) ==
    [outcome |-> outcome, width |-> W, height |-> H, scale |-> s,
     cutoff |-> cutoff, cols |-> cols, rows |-> rows, boxes |-> boxes]

PackFailure(outcome) == PackResult(outcome, 0, 0, 0, FALSE, 0, 0, <<>>)

SetMax(S) == CHOOSE m \in S : \A e \in S : e <= m

TightBoxes(n, W, H, sp, s) ==
    LET placement == TightPlacement(n, W, H, sp, s)
    IN  [k \in 1..n |-> [x |-> placement[k].x, y |-> placement[k].y,
                         w |-> GlyphBox(k - 1, s).w, h |-> GlyphBox(k - 1, s).h]]

\* The scales from the floor upwards at which all n boxes fit a W x H atlas.
FittingScales(n, W, H, sp, floor) ==
    {s \in Max(floor, 1)..ScaleLimit :
        Remaining(TightPlacement(n, W, H, sp, s)) = 0}

\* TightAtlasPacker::pack.  With fixed dimensions and a fixed scale the boxes
\* are packed as they are and the outcome is the number left over.  With
\* fixed dimensions and a minimum scale the largest fitting scale from the
\* floor upwards is taken; if the floor itself does not fit the outcome is
\* the number left over at the floor, and without a floor the request is
\* infeasible.  Without fixed dimensions the scale is the fixed or the
\* minimum scale and the smallest atlas the constraint allows is taken.
TightPack(n, fixedDimensions, W, H, c, sp, fixedScale, scale, minScale) ==
    IF fixedDimensions /\ fixedScale
    THEN LET k == Remaining(TightPlacement(n, W, H, sp, scale))
         IN  IF k # 0 THEN {PackFailure(k)}
             ELSE {PackResult(0, W, H, scale, FALSE, 0, 0,
                              TightBoxes(n, W, H, sp, scale))}
    ELSE IF fixedDimensions
    THEN LET F == FittingScales(n, W, H, sp, minScale)
         IN  IF F # {}
             THEN {PackResult(0, W, H, SetMax(F), FALSE, 0, 0,
                              TightBoxes(n, W, H, sp, SetMax(F)))}
             ELSE IF minScale > 0
             THEN {PackFailure(Remaining(TightPlacement(n, W, H, sp, minScale)))}
             ELSE {PackFailure(-1)}
    ELSE LET s == IF fixedScale THEN scale ELSE minScale
             B == IF s > 0 THEN BestDimensions(c, n, sp, s) ELSE {}
         IN  IF B = {} THEN {PackFailure(-1)}
             ELSE {PackResult(0, d[1], d[2], s, FALSE, 0, 0,
                              TightBoxes(n, d[1], d[2], sp, s)) : d \in B}

(***************************************************************************)
(* GridAtlasPacker (spec.md 4.2).  All glyphs share one cell size, fixed   *)
(* or derived from the largest box; a glyph larger than a fixed cell is    *)
(* cut off.  The column count is fixed, or follows from the atlas width,   *)
(* or is the side of the smallest square of cells that holds all glyphs.   *)
(***************************************************************************)
LargestBox(n, s) ==
    [w |-> SetMax({GlyphBox(i, s).w : i \in 0..(n - 1)}),
     h |-> SetMax({GlyphBox(i, s).h : i \in 0..(n - 1)})]

\* The smallest number of columns k with k * k >= n.
SquareColumns(n) == CHOOSE k \in 1..n : k * k >= n /\ (k - 1) * (k - 1) < n

GridLayout(n, fixedCell, cw, ch, cols, fixedDimensions, W, H, s) ==
    LET big   == LargestBox(n, s)
        cellW == IF fixedCell THEN cw ELSE big.w
        cellH == IF fixedCell THEN ch ELSE big.h
        nCols == IF cols > 0 THEN cols
                 ELSE IF fixedDimensions THEN W \div cellW
                 ELSE SquareColumns(n)
        nRows == IF fixedDimensions THEN H \div cellH
                 ELSE IF nCols > 0 THEN CeilDiv(n, nCols) ELSE 0
        fitsW == ~fixedDimensions \/ nCols * cellW <= W
        room  == IF fitsW THEN nCols * nRows ELSE 0
    IN  [cellW |-> cellW, cellH |-> cellH, cols |-> nCols, rows |-> nRows,
         width |-> IF fixedDimensions THEN W ELSE nCols * cellW,
         height |-> IF fixedDimensions THEN H ELSE nRows * cellH,
         cutoff |-> big.w > cellW \/ big.h > cellH,
         unplaced |-> Max(n - room, 0)]

GridBoxes(n, g, s) ==
    [k \in 1..n |-> [x |-> ((k - 1) % g.cols) * g.cellW,
                     y |-> ((k - 1) \div g.cols) * g.cellH,
                     w |-> IF GlyphBox(k - 1, s).w < g.cellW
                           THEN GlyphBox(k - 1, s).w ELSE g.cellW,
                     h |-> IF GlyphBox(k - 1, s).h < g.cellH
                           THEN GlyphBox(k - 1, s).h ELSE g.cellH]]

\* GridAtlasPacker::pack.  A fixed scale is used as it is.  Otherwise, when
\* the cell or the atlas is fixed, the largest scale from the floor upwards
\* at which nothing is cut off and everything is placed is taken, and the
\* floor itself when there is none; without a floor and without any such
\* scale the request is infeasible.
GridPack(n, fixedCell, cw, ch, cols, fixedDimensions, W, H, fixedScale, scale, minScale) ==
    LET At(s) == GridLayout(n, fixedCell, cw, ch, cols, fixedDimensions, W, H, s)
        F == {s \in Max(minScale, 1)..ScaleLimit :
                 At(s).unplaced = 0 /\ ~At(s).cutoff}
        s == IF fixedScale THEN scale
             ELSE IF F # {} /\ (fixedCell \/ fixedDimensions) THEN SetMax(F)
             ELSE minScale
    IN  IF s <= 0 THEN {PackFailure(-1)}
        ELSE IF At(s).unplaced > 0 THEN {PackFailure(At(s).unplaced)}
        ELSE {PackResult(0, At(s).width, At(s).height, s, At(s).cutoff,
                         At(s).cols, At(s).rows, GridBoxes(n, At(s), s))}

(***************************************************************************)
(* State.                                                                  *)
(*   pc        position of main()                                          *)
(*   config    the Configuration struct                                    *)
(*   local     locals of main() that are settled before packing            *)
(*   glyphs    std::vector<GlyphGeometry>: box, edge-coloring seed, and    *)
(*             how many times edgeColoring was applied                     *)
(*   work      Workload: for every worker thread the indices it has still  *)
(*             to run                                                      *)
(*   glyphSeed the running seed of the sequential coloring loop            *)
(*   glyphIt   the index the sequential coloring loop has reached          *)
(*   gen       per glyph: how many times its generation task ran, and the  *)
(*             task's outcome                                              *)
(*   bitmap    the atlas storage, pixel <<x, y>> -> sample                 *)
(*   success   makeAtlas's result                                          *)
(*   result    main()'s exit status                                        *)
(*   sinks     the output sinks invoked so far, in order                   *)
(*   stderr    the messages written to stderr that the model follows       *)
(*   atlas     the makeAtlas instantiation that was called                 *)
(***************************************************************************)
VARIABLES pc, config, local, glyphs, work, glyphSeed, glyphIt, gen, bitmap,
          success, result, sinks, stderr, atlas

vars == <<pc, config, local, glyphs, work, glyphSeed, glyphIt, gen, bitmap,
          success, result, sinks, stderr, atlas>>

NoSeed == <<>>

\* No makeAtlas instantiation has been called.
NoAtlas == <<>>

Indices == DOMAIN glyphs

\* glyphs.size()
GlyphCount == Cardinality(Indices)

\* msdfgen::Range(lower, upper) and msdfgen::Range(symmetricalWidth).  The
\* bounds are kept in halves of the unit, so that a symmetrical range of
\* odd width has integer bounds.
Range(lower, upper) == [lower |-> 2 * lower, upper |-> 2 * upper]

SymmetricalRange(width) == [lower |-> -width, upper |-> width]

\* One command-line option with its arguments: v is a word, a and b are
\* numbers.
Option(opt, v, a, b) == [opt |-> opt, v |-> v, a |-> a, b |-> b]

\* One line written to stderr: what it says, the word and the numbers in it.
Message(msg, v, a, b) == [msg |-> msg, v |-> v, a |-> a, b |-> b]

\* A null const char *.  A string of the command line is known by its
\* position in argv, as a pointer is: two arguments with the same characters
\* are two different pointers.
NoString == 0

\* FontInput fontInput = { }; with glyphIdentifierType and fontScale as
\* main() assigns them.
InitialFontInput ==
    [fontFilename |-> NoString,
     variableFont |-> FALSE,
     glyphIdentifierType |-> "UNICODE_CODEPOINT",
     charsetFilename |-> NoString,
     charsetString |-> NoString,
     fontScale |-> -1,
     fontName |-> NoString]

\* Configuration config = { } and the assignments of main() before the
\* command line is parsed; skia tells whether the build has MSDFGEN_USE_SKIA.
InitialConfig(skia) ==
    [imageType |-> "MSDF",
     imageFormat |-> "UNSPECIFIED",
     width |-> 0, height |-> 0,
     emSize |-> 0,
     edgeColoring |-> "edgeColoringInkTrap",
     expensiveColoring |-> FALSE,
     coloringSeed |-> U64Zero,
     threadCount |-> 0,
     preprocessGeometry |-> skia,
     scanlinePass |-> ~skia,
     errorCorrection |-> [mode |-> "EDGE_PRIORITY",
                          distanceCheckMode |-> "CHECK_DISTANCE_AT_EDGE"],
     grid |-> [cols |-> 0, rows |-> 0, cellWidth |-> 0, cellHeight |-> 0],
     arteryFontFilename |-> FALSE,
     imageFilename |-> FALSE,
     imageExtension |-> "",
     jsonFilename |-> FALSE,
     csvFilename |-> FALSE,
     shadronPreviewFilename |-> FALSE]

\* The locals of main() before the command line is parsed.  argv holds the
\* options after the program name, argPos the next one to read; threads is
\* what std::thread::hardware_concurrency() gives on the machine.  packer
\* holds what was set on the packer, remaining what pack() returned and
\* hasCutoff what hasCutoff() gave; fontFilename tells whether
\* fontInput.fontFilename is set; failed holds the output sinks that
\* returned false.
InitialLocal(argv, threads) ==
    [argv |-> argv,
     argPos |-> 1,
     fontFilename |-> FALSE,
     fontInput |-> InitialFontInput,
     fontInputs |-> <<>>,
     failed |-> {},
     fixedWidth |-> -1, fixedHeight |-> -1,
     fixedCellWidth |-> -1, fixedCellHeight |-> -1,
     packingSpacing |-> -1,
     minEmSize |-> 0,
     rangeUnits |-> "PIXELS",
     rangeValue |-> SymmetricalRange(0),
     packingStyle |-> "TIGHT",
     atlasSizeConstraint |-> "NONE",
     explicitErrorCorrectionMode |-> FALSE,
     hardwareConcurrency |-> threads,
     spacing |-> 0,
     layoutOnly |-> FALSE,
     floatingPointFormat |-> FALSE,
     anyCodepointsAvailable |-> FALSE,
     packer |-> <<>>,
     remaining |-> 0,
     hasCutoff |-> FALSE]

\* The state in which main() reaches packing: command line parsed,
\* configuration fixed up, n glyphs loaded.  The glyph size is fixed at
\* DEFAULT_SIZE and the scanline pass is on.
InitState(imageType, imageFormat, expensive, seed, threads, n, packingSpacing, fixedDims, constraint, imageOut, jsonOut) ==
    /\ pc = "pack"
    /\ config = [InitialConfig(FALSE) EXCEPT
                    !.imageType = imageType,
                    !.imageFormat = imageFormat,
                    !.emSize = DEFAULT_SIZE,
                    !.edgeColoring = IF expensive THEN "edgeColoringByDistance"
                                     ELSE "edgeColoringInkTrap",
                    !.expensiveColoring = expensive,
                    !.coloringSeed = seed,
                    !.threadCount = threads,
                    !.errorCorrection.distanceCheckMode = "DO_NOT_CHECK_DISTANCE",
                    !.imageFilename = imageOut,
                    !.jsonFilename = jsonOut]
    /\ local = [InitialLocal(<<>>, threads) EXCEPT
                    !.fontFilename = TRUE,
                    !.fontInput.fontFilename = 1,
                    !.fontInputs = <<[InitialFontInput EXCEPT !.fontFilename = 1]>>,
                    !.fixedWidth = fixedDims[1],
                    !.fixedHeight = fixedDims[2],
                    !.atlasSizeConstraint = constraint,
                    !.packingSpacing = packingSpacing,
                    !.minEmSize = DEFAULT_SIZE,
                    !.rangeValue = IF imageType \in {"HARD_MASK", "SOFT_MASK"}
                                   THEN SymmetricalRange(1)
                                   ELSE SymmetricalRange(DEFAULT_PIXEL_RANGE),
                    !.spacing = SelectSpacing(imageType, packingSpacing),
                    !.layoutOnly = LayoutOnly(FALSE, imageOut),
                    !.floatingPointFormat = FloatingPointFormat(imageFormat),
                    !.anyCodepointsAvailable = TRUE]
    /\ glyphs = [i \in 0..(n - 1) |->
                    [x |-> 0, y |-> 0, w |-> 0, h |-> 0,
                     seed |-> NoSeed, colorings |-> 0]]
    /\ work = <<>>
    /\ glyphSeed = U64Zero
    /\ glyphIt = 0
    /\ gen = [i \in 0..(n - 1) |-> [runs |-> 0, ok |-> TRUE]]
    /\ bitmap = <<>>
    /\ success = FALSE
    /\ result = 0
    /\ sinks = <<>>
    /\ stderr = {}
    /\ atlas = NoAtlas

\* -seed values
SeedInputs ==
    {U64Zero, U64FromInt(1), U64FromInt(2),
     U64FromDecimal(9, 223372036, 854775808),
     U64FromDecimal(18, 446744073, 709551615)}

\* Runs that differ in the coloring inputs; the layout is a fixed strip.
Init ==
    \E imageType \in {"SDF", "MSDF", "MTSDF"}, expensive \in BOOLEAN,
       seed \in SeedInputs, threads \in 1..MaxThreads, n \in 1..MaxGlyphs,
       imageOut \in BOOLEAN :
        InitState(imageType, "PNG", expensive, seed, threads, n,
                  -1, <<-1, -1>>, "MULTIPLE_OF_FOUR_SQUARE", imageOut, ~imageOut)

\* Runs that differ in the layout inputs.
InitLayout ==
    \E imageType \in ImageTypes, imageFormat \in {"PNG", "TIFF"},
       expensive \in BOOLEAN, threads \in 1..MaxThreads, n \in 1..MaxGlyphs,
       packingSpacing \in -1..MaxSpacingArg,
       fixedDims \in {<<-1, -1>>, <<6, 3>>, <<8, 4>>},
       constraint \in {"MULTIPLE_OF_FOUR_SQUARE", "SQUARE"},
       jsonOut \in BOOLEAN :
        InitState(imageType, imageFormat, expensive, U64FromInt(1), threads, n,
                  packingSpacing, fixedDims, constraint, TRUE, jsonOut)

(***************************************************************************)
(* The command line.  One step of ParseArg is one iteration of              *)
(* while (argPos < argc).  Real-valued arguments are whole numbers here.   *)
(***************************************************************************)
TypeNames ==
    [hardmask |-> "HARD_MASK", softmask |-> "SOFT_MASK", sdf |-> "SDF",
     psdf |-> "PSDF", msdf |-> "MSDF", mtsdf |-> "MTSDF"]

FormatNames ==
    [png |-> "PNG", bmp |-> "BMP", tiff |-> "TIFF", tif |-> "TIFF",
     rgba |-> "RGBA", fl32 |-> "FL32", text |-> "TEXT", txt |-> "TEXT",
     textfloat |-> "TEXT_FLOAT", txtfloat |-> "TEXT_FLOAT",
     bin |-> "BINARY", binary |-> "BINARY",
     binfloat |-> "BINARY_FLOAT", binfloatle |-> "BINARY_FLOAT",
     binfloatbe |-> "BINARY_FLOAT_BE"]

ConstraintOptions ==
    ("-pots" :> "POWER_OF_TWO_SQUARE") @@ ("-potr" :> "POWER_OF_TWO_RECTANGLE")
    @@ ("-square" :> "SQUARE") @@ ("-square2" :> "EVEN_SQUARE")
    @@ ("-square4" :> "MULTIPLE_OF_FOUR_SQUARE")

\* The error correction mode and distance check an -errorcorrection word
\* selects; ec, the setting so far, for a word that selects none.
ErrorCorrectionMode(name, ec) ==
    CASE name \in {"disabled", "0", "none"} ->
           [mode |-> "DISABLED", distanceCheckMode |-> "DO_NOT_CHECK_DISTANCE"]
      [] name \in {"default", "auto", "auto-mixed", "mixed"} ->
           [mode |-> "EDGE_PRIORITY", distanceCheckMode |-> "CHECK_DISTANCE_AT_EDGE"]
      [] name \in {"auto-fast", "fast"} ->
           [mode |-> "EDGE_PRIORITY", distanceCheckMode |-> "DO_NOT_CHECK_DISTANCE"]
      [] name \in {"auto-full", "full"} ->
           [mode |-> "EDGE_PRIORITY", distanceCheckMode |-> "ALWAYS_CHECK_DISTANCE"]
      [] name \in {"distance", "distance-fast", "indiscriminate", "indiscriminate-fast"} ->
           [mode |-> "INDISCRIMINATE", distanceCheckMode |-> "DO_NOT_CHECK_DISTANCE"]
      [] name \in {"distance-full", "indiscriminate-full"} ->
           [mode |-> "INDISCRIMINATE", distanceCheckMode |-> "ALWAYS_CHECK_DISTANCE"]
      [] name = "edge-fast" ->
           [mode |-> "EDGE_ONLY", distanceCheckMode |-> "DO_NOT_CHECK_DISTANCE"]
      [] name \in {"edge", "edge-full"} ->
           [mode |-> "EDGE_ONLY", distanceCheckMode |-> "ALWAYS_CHECK_DISTANCE"]
      [] OTHER -> ec

ErrorCorrectionNames ==
    {"disabled", "0", "none", "default", "auto", "auto-mixed", "mixed",
     "auto-fast", "fast", "auto-full", "full", "distance", "distance-fast",
     "indiscriminate", "indiscriminate-fast", "distance-full",
     "indiscriminate-full", "edge-fast", "edge", "edge-full"}

\* What one option leaves behind: the configuration and the locals, or an
\* abort (ABORT(...), return 1).
Parsed(c, l) == [abort |-> FALSE, config |-> c, local |-> l]

Aborted == [abort |-> TRUE, config |-> config, local |-> local]

\* ARG_CASE("-type", 1)
ParseType(arg) ==
    IF arg.v \in DOMAIN TypeNames
    THEN Parsed([config EXCEPT !.imageType = TypeNames[arg.v]], local)
    ELSE Aborted

\* ARG_CASE("-threads", 1); arg.a is (int) tc, negative when tc is above
\* INT_MAX.
ParseThreads(arg) ==
    IF arg.v = "" /\ arg.a >= 0
    THEN Parsed([config EXCEPT !.threadCount = arg.a], local)
    ELSE Aborted

\* sscanf(arg, "%u%c", &value, &c) == 1: the argument is a number with
\* nothing after it.  The word of a numeric argument is empty and its value
\* is arg.a (and arg.b).  %u reads a sign as strtoul does, and the value is
\* kept here as the int that the 32 bits of the unsigned make: "-1" and
\* "4294967295" are both -1.
ParseUnsigned(arg) == arg.v = ""

\* A variant in which inktrap counts as an expensive coloring.
ParseColoringStrategyInkTrapExpensive(arg) ==
    CASE arg.v = "simple" ->
           Parsed([config EXCEPT !.edgeColoring = "edgeColoringSimple",
                                 !.expensiveColoring = FALSE], local)
      [] arg.v = "inktrap" ->
           Parsed([config EXCEPT !.edgeColoring = "edgeColoringInkTrap",
                                 !.expensiveColoring = TRUE], local)
      [] arg.v = "distance" ->
           Parsed([config EXCEPT !.edgeColoring = "edgeColoringByDistance",
                                 !.expensiveColoring = TRUE], local)
      [] OTHER -> Parsed(config, local)

\* ARG_CASE("-coloringstrategy" ARG_CASE_OR "-edgecoloring", 1)
ParseColoringStrategy(arg) ==
    CASE arg.v = "simple" ->
           Parsed([config EXCEPT !.edgeColoring = "edgeColoringSimple",
                                 !.expensiveColoring = FALSE], local)
      [] arg.v = "inktrap" ->
           Parsed([config EXCEPT !.edgeColoring = "edgeColoringInkTrap",
                                 !.expensiveColoring = FALSE], local)
      [] arg.v = "distance" ->
           Parsed([config EXCEPT !.edgeColoring = "edgeColoringByDistance",
                                 !.expensiveColoring = TRUE], local)
      [] OTHER -> Parsed(config, local)

\* The options that write to fontInput; the argument of the option at
\* argPos is the string the pointer is set to.
ParseFontInput(arg) ==
    LET input == local.fontInput
        here == local.argPos
    IN  CASE arg.opt = "-font" ->
               [input EXCEPT !.fontFilename = here, !.variableFont = FALSE]
          [] arg.opt = "-varfont" ->
               [input EXCEPT !.fontFilename = here, !.variableFont = TRUE]
          [] arg.opt = "-charset" ->
               [input EXCEPT !.charsetFilename = here, !.charsetString = NoString,
                             !.glyphIdentifierType = "UNICODE_CODEPOINT"]
          [] arg.opt = "-glyphset" ->
               [input EXCEPT !.charsetFilename = here, !.charsetString = NoString,
                             !.glyphIdentifierType = "GLYPH_INDEX"]
          [] arg.opt = "-chars" ->
               [input EXCEPT !.charsetFilename = NoString, !.charsetString = here,
                             !.glyphIdentifierType = "UNICODE_CODEPOINT"]
          [] arg.opt = "-glyphs" ->
               [input EXCEPT !.charsetFilename = NoString, !.charsetString = here,
                             !.glyphIdentifierType = "GLYPH_INDEX"]
          [] arg.opt = "-allglyphs" ->
               [input EXCEPT !.charsetFilename = NoString, !.charsetString = NoString,
                             !.glyphIdentifierType = "GLYPH_INDEX"]
          [] arg.opt = "-fontscale" -> [input EXCEPT !.fontScale = arg.a]
          [] arg.opt = "-fontname" -> [input EXCEPT !.fontName = here]

FontInputOptions ==
    {"-font", "-varfont", "-charset", "-glyphset", "-chars", "-glyphs",
     "-allglyphs", "-fontscale", "-fontname"}

\* memcmp(&a, &b, sizeof(FontInput)) == 0.  The bytes compared are those of
\* the members, pointers among them, and the padding between variableFont
\* and glyphIdentifierType, which no statement of main() writes: padding
\* tells whether the padding bytes of the two objects are equal.
SameFontInput(a, b, padding) == a = b /\ padding

\* ARG_CASE("-and", 0)
ParseAnd(padding) ==
    LET input == local.fontInput
    IN  IF input.fontFilename = NoString /\ input.charsetFilename = NoString
           /\ input.charsetString = NoString /\ input.fontScale < 0
        THEN Aborted
        ELSE IF local.fontInputs # <<>>
                /\ SameFontInput(local.fontInputs[Len(local.fontInputs)], input, padding)
        THEN Aborted
        ELSE Parsed(config, [local EXCEPT !.fontInputs = Append(@, input),
                                          !.fontInput.fontName = NoString])

\* The body of while (argPos < argc) for the option arg.
ParseOption(arg, padding) ==
    CASE arg.opt = "-type" -> ParseType(arg)
      [] arg.opt = "-format" ->
           IF arg.v \in DOMAIN FormatNames
           THEN Parsed([config EXCEPT !.imageFormat = FormatNames[arg.v]], local)
           ELSE Aborted
      [] arg.opt \in {"-font", "-varfont"} ->
           Parsed(config, [local EXCEPT !.fontFilename = TRUE,
                                        !.fontInput = ParseFontInput(arg)])
      [] arg.opt = "-fontscale" ->
           IF arg.a > 0
           THEN Parsed(config, [local EXCEPT !.fontInput = ParseFontInput(arg)])
           ELSE Aborted
      [] arg.opt \in FontInputOptions \ {"-font", "-varfont", "-fontscale"} ->
           Parsed(config, [local EXCEPT !.fontInput = ParseFontInput(arg)])
      [] arg.opt = "-and" -> ParseAnd(padding)
      [] arg.opt = "-arfont" ->
           Parsed([config EXCEPT !.arteryFontFilename = TRUE], local)
      [] arg.opt = "-imageout" ->
           Parsed([config EXCEPT !.imageFilename = TRUE,
                                 !.imageExtension = arg.v], local)
      [] arg.opt = "-json" ->
           Parsed([config EXCEPT !.jsonFilename = TRUE], local)
      [] arg.opt = "-csv" ->
           Parsed([config EXCEPT !.csvFilename = TRUE], local)
      [] arg.opt = "-shadronpreview" ->
           Parsed([config EXCEPT !.shadronPreviewFilename = TRUE], local)
      [] arg.opt = "-dimensions" ->
           IF ParseUnsigned(arg) /\ arg.a # 0 /\ arg.b # 0
           THEN Parsed(config, [local EXCEPT !.fixedWidth = arg.a,
                                             !.fixedHeight = arg.b])
           ELSE Aborted
      [] arg.opt = "-spacing" ->
           IF ParseUnsigned(arg)
           THEN Parsed(config, [local EXCEPT !.packingSpacing = arg.a])
           ELSE Aborted
      [] arg.opt \in DOMAIN ConstraintOptions ->
           Parsed(config, [local EXCEPT
                              !.atlasSizeConstraint = ConstraintOptions[arg.opt],
                              !.fixedWidth = -1, !.fixedHeight = -1])
      [] arg.opt = "-size" ->
           IF arg.a > 0
           THEN Parsed([config EXCEPT !.emSize = arg.a], local)
           ELSE Aborted
      [] arg.opt = "-minsize" ->
           IF arg.a > 0
           THEN Parsed(config, [local EXCEPT !.minEmSize = arg.a])
           ELSE Aborted
      [] arg.opt \in {"-emrange", "-pxrange"} ->
           IF arg.a # 0
           THEN Parsed(config, [local EXCEPT
                   !.rangeUnits = IF arg.opt = "-emrange" THEN "EMS" ELSE "PIXELS",
                   !.rangeValue = SymmetricalRange(arg.a)])
           ELSE Aborted
      [] arg.opt \in {"-aemrange", "-apxrange"} ->
           IF arg.a # arg.b
           THEN Parsed(config, [local EXCEPT
                   !.rangeUnits = IF arg.opt = "-aemrange" THEN "EMS" ELSE "PIXELS",
                   !.rangeValue = Range(arg.a, arg.b)])
           ELSE Aborted
      [] arg.opt = "-uniformgrid" ->
           Parsed(config, [local EXCEPT !.packingStyle = "GRID"])
      [] arg.opt = "-uniformcols" ->
           IF ParseUnsigned(arg) /\ arg.a # 0
           THEN Parsed([config EXCEPT !.grid.cols = arg.a],
                       [local EXCEPT !.packingStyle = "GRID"])
           ELSE Aborted
      [] arg.opt = "-uniformcell" ->
           IF ParseUnsigned(arg) /\ arg.a # 0 /\ arg.b # 0
           THEN Parsed(config, [local EXCEPT !.packingStyle = "GRID",
                                             !.fixedCellWidth = arg.a,
                                             !.fixedCellHeight = arg.b])
           ELSE Aborted
      [] arg.opt = "-errorcorrection" ->
           IF arg.v \in ErrorCorrectionNames
           THEN Parsed([config EXCEPT !.errorCorrection =
                                          ErrorCorrectionMode(arg.v, @)],
                       [local EXCEPT !.explicitErrorCorrectionMode = TRUE])
           ELSE Aborted
      [] arg.opt \in {"-coloringstrategy", "-edgecoloring"} ->
           ParseColoringStrategy(arg)
      [] arg.opt = "-nopreprocess" ->
           Parsed([config EXCEPT !.preprocessGeometry = FALSE], local)
      [] arg.opt = "-preprocess" ->
           Parsed([config EXCEPT !.preprocessGeometry = TRUE], local)
      [] arg.opt = "-noscanline" ->
           Parsed([config EXCEPT !.scanlinePass = FALSE], local)
      [] arg.opt = "-scanline" ->
           Parsed([config EXCEPT !.scanlinePass = TRUE], local)
      [] arg.opt = "-threads" -> ParseThreads(arg)
      [] OTHER -> Parsed(config, local)

PipelineVars ==
    <<glyphs, work, glyphSeed, glyphIt, gen, bitmap, success, sinks, atlas>>

\* One iteration of while (argPos < argc).
ParseArg ==
    /\ pc = "parse"
    /\ local.argPos <= Len(local.argv)
    /\ \E padding \in BOOLEAN :
       LET r == ParseOption(local.argv[local.argPos], padding)
       IN  IF r.abort
           THEN /\ result' = 1
                /\ pc' = "done"
                /\ UNCHANGED <<config, local>>
           ELSE /\ config' = r.config
                /\ local' = [r.local EXCEPT !.argPos = @ + 1]
                /\ UNCHANGED <<pc, result>>
    /\ UNCHANGED <<stderr>>
    /\ UNCHANGED PipelineVars

\* it->charsetFilename || it->charsetString ||
\* it->glyphIdentifierType == GlyphIdentifierType::GLYPH_INDEX
HasGlyphSet(input) ==
    \/ input.charsetFilename # NoString
    \/ input.charsetString # NoString
    \/ input.glyphIdentifierType = "GLYPH_INDEX"

\* A variant that leaves a missing font filename as it is.
InheritFontInputWithoutFont(it, next) ==
    LET glyphSet == ~HasGlyphSet(it) /\ HasGlyphSet(next)
    IN  [it EXCEPT
           !.charsetFilename = IF glyphSet THEN next.charsetFilename ELSE @,
           !.charsetString = IF glyphSet THEN next.charsetString ELSE @,
           !.glyphIdentifierType = IF glyphSet THEN next.glyphIdentifierType ELSE @,
           !.fontScale = IF it.fontScale < 0 /\ next.fontScale >= 0
                         THEN next.fontScale ELSE @]

\* The body of the loop over fontInputs.rbegin() .. rend(): what the input
\* it takes from nextFontInput.
InheritFontInput(it, next) ==
    LET glyphSet == ~HasGlyphSet(it) /\ HasGlyphSet(next)
    IN  [it EXCEPT
           !.fontFilename = IF it.fontFilename = NoString
                               /\ next.fontFilename # NoString
                            THEN next.fontFilename ELSE @,
           !.charsetFilename = IF glyphSet THEN next.charsetFilename ELSE @,
           !.charsetString = IF glyphSet THEN next.charsetString ELSE @,
           !.glyphIdentifierType = IF glyphSet THEN next.glyphIdentifierType ELSE @,
           !.fontScale = IF it.fontScale < 0 /\ next.fontScale >= 0
                         THEN next.fontScale ELSE @]

\* The loop: the inputs from the last to the first, nextFontInput being the
\* input after the one visited, as the loop has left it.
RECURSIVE InheritedFontInputs(_, _)
InheritedFontInputs(inputs, next) ==
    IF inputs = <<>>
    THEN <<>>
    ELSE LET it == InheritFontInput(inputs[Len(inputs)], next)
         IN  Append(InheritedFontInputs(SubSeq(inputs, 1, Len(inputs) - 1), it), it)

\* Finalize font inputs, and
\* if (fontInputs.empty() || memcmp(&fontInputs.back(), &fontInput, ...))
\*     fontInputs.push_back(fontInput);
FinalizeFontInputs(inputs, fontInput, padding) ==
    LET inherited == InheritedFontInputs(inputs, fontInput)
    IN  IF inherited = <<>>
           \/ ~SameFontInput(inherited[Len(inherited)], fontInput, padding)
        THEN Append(inherited, fontInput)
        ELSE inherited

\* After the loop: nothing to do, no font, no output, layoutOnly, and the
\* font inputs.
CheckInputs ==
    /\ pc = "parse"
    /\ local.argPos > Len(local.argv)
    /\ IF Len(local.argv) = 0
       THEN pc' = "done" /\ UNCHANGED <<result, local>>
       ELSE IF ~local.fontFilename
       THEN pc' = "done" /\ result' = 1 /\ UNCHANGED local
       ELSE IF ~(config.arteryFontFilename \/ config.imageFilename
                 \/ config.jsonFilename \/ config.csvFilename
                 \/ config.shadronPreviewFilename)
       THEN pc' = "done" /\ UNCHANGED <<result, local>>
       ELSE /\ \E padding \in BOOLEAN :
                 local' = [local EXCEPT
                    !.layoutOnly =
                        LayoutOnly(config.arteryFontFilename, config.imageFilename),
                    !.fontInputs =
                        FinalizeFontInputs(@, local.fontInput, padding)]
            /\ pc' = "fixup"
            /\ UNCHANGED result
    /\ UNCHANGED <<config, stderr>>
    /\ UNCHANGED PipelineVars

(***************************************************************************)
(* Fix up configuration based on related values.                           *)
(***************************************************************************)
\* A variant in which the test of the cell size has lost its negation.
NeedsDefaultSizeCellNegated(fixedWidth, fixedHeight, fixedCellWidth, fixedCellHeight, minEmSize) ==
    /\ ~(fixedWidth > 0 /\ fixedHeight > 0)
    /\ (fixedCellWidth > 0 /\ fixedCellHeight > 0)
    /\ ~(minEmSize > 0)

\* if (!(fixedWidth > 0 && fixedHeight > 0) &&
\*     !(fixedCellWidth > 0 && fixedCellHeight > 0) && !(minEmSize > 0))
NeedsDefaultSize(fixedWidth, fixedHeight, fixedCellWidth, fixedCellHeight, minEmSize) ==
    /\ ~(fixedWidth > 0 /\ fixedHeight > 0)
    /\ ~(fixedCellWidth > 0 /\ fixedCellHeight > 0)
    /\ ~(minEmSize > 0)

\* A variant that keeps a range the user gave for a mask.
FixUpRangeKeepingGiven(imageType, rangeUnits, rangeValue) ==
    IF rangeValue.lower = rangeValue.upper
    THEN [units |-> "PIXELS",
          value |-> IF imageType \in {"HARD_MASK", "SOFT_MASK"}
                    THEN SymmetricalRange(1)
                    ELSE SymmetricalRange(DEFAULT_PIXEL_RANGE)]
    ELSE [units |-> rangeUnits, value |-> rangeValue]

\* if (HARD_MASK || SOFT_MASK) { rangeUnits = PIXELS; rangeValue = 1; }
\* else if (rangeValue.lower == rangeValue.upper)
\*     { rangeUnits = PIXELS; rangeValue = DEFAULT_PIXEL_RANGE; }
FixUpRange(imageType, rangeUnits, rangeValue) ==
    IF imageType \in {"HARD_MASK", "SOFT_MASK"}
    THEN [units |-> "PIXELS", value |-> SymmetricalRange(1)]
    ELSE IF rangeValue.lower = rangeValue.upper
    THEN [units |-> "PIXELS", value |-> SymmetricalRange(DEFAULT_PIXEL_RANGE)]
    ELSE [units |-> rangeUnits, value |-> rangeValue]

\* A variant that takes the detected number of threads as it is.
FixUpThreadCountUnclamped(threadCount, hardwareConcurrency) ==
    IF threadCount <= 0 THEN hardwareConcurrency ELSE threadCount

\* if (config.threadCount <= 0)
\*     config.threadCount = std::max((int) std::thread::hardware_concurrency(), 1);
FixUpThreadCount(threadCount, hardwareConcurrency) ==
    IF threadCount <= 0 THEN Max(hardwareConcurrency, 1) ELSE threadCount

\* A variant that warns about any distance check, asked for or not.
DowngradeWarnedAnyCheck(scanlinePass, explicitErrorCorrectionMode, distanceCheckMode) ==
    scanlinePass /\ distanceCheckMode # "DO_NOT_CHECK_DISTANCE"

\* if (scanlinePass) if (explicitErrorCorrectionMode &&
\*     distanceCheckMode != DO_NOT_CHECK_DISTANCE)
DowngradeWarned(scanlinePass, explicitErrorCorrectionMode, distanceCheckMode) ==
    /\ scanlinePass
    /\ explicitErrorCorrectionMode
    /\ distanceCheckMode # "DO_NOT_CHECK_DISTANCE"

\* switch (errorCorrection.mode) ... fallbackModeName
FallbackModeName(mode) ==
    CASE mode = "DISABLED" -> "disabled"
      [] mode = "INDISCRIMINATE" -> "distance-fast"
      [] mode = "EDGE_PRIORITY" -> "auto-fast"
      [] mode = "EDGE_ONLY" -> "edge-fast"
      [] OTHER -> "unknown"

\* A variant that switches the check off only when it warns.
FixUpDistanceCheckWhenWarned(scanlinePass, explicitErrorCorrectionMode, distanceCheckMode) ==
    IF scanlinePass /\ explicitErrorCorrectionMode
    THEN "DO_NOT_CHECK_DISTANCE"
    ELSE distanceCheckMode

\* if (scanlinePass) { ...; distanceCheckMode = DO_NOT_CHECK_DISTANCE; }
FixUpDistanceCheck(scanlinePass, explicitErrorCorrectionMode, distanceCheckMode) ==
    IF scanlinePass THEN "DO_NOT_CHECK_DISTANCE" ELSE distanceCheckMode

FixUp ==
    /\ pc = "fixup"
    /\ LET constraint == IF local.packingStyle = "TIGHT"
                            /\ local.atlasSizeConstraint = "NONE"
                         THEN "MULTIPLE_OF_FOUR_SQUARE"
                         ELSE local.atlasSizeConstraint
           minEmSize == IF config.emSize > local.minEmSize
                        THEN config.emSize ELSE local.minEmSize
           default == NeedsDefaultSize(local.fixedWidth, local.fixedHeight,
                                       local.fixedCellWidth, local.fixedCellHeight,
                                       minEmSize)
           range == FixUpRange(config.imageType, local.rangeUnits, local.rangeValue)
           ec == config.errorCorrection
           warned == DowngradeWarned(config.scanlinePass,
                                     local.explicitErrorCorrectionMode,
                                     ec.distanceCheckMode)
       IN  /\ local' = [local EXCEPT
                           !.atlasSizeConstraint = constraint,
                           !.minEmSize = IF default THEN DEFAULT_SIZE ELSE minEmSize,
                           !.rangeUnits = range.units,
                           !.rangeValue = range.value]
           /\ config' = [config EXCEPT
                           !.threadCount = FixUpThreadCount(@, local.hardwareConcurrency),
                           !.errorCorrection.distanceCheckMode =
                               FixUpDistanceCheck(config.scanlinePass,
                                                  local.explicitErrorCorrectionMode, @)]
           /\ stderr' = stderr
                  \cup (IF default THEN {Message("default size", "", 0, 0)} ELSE {})
                  \cup (IF warned
                        THEN {Message("fallback", FallbackModeName(ec.mode), 0, 0)}
                        ELSE {})
    /\ pc' = "format"
    /\ UNCHANGED result
    /\ UNCHANGED PipelineVars

(***************************************************************************)
(* Finalize image format, spacing; load fonts.                             *)
(***************************************************************************)
\* The characters of the file names and extensions of the model.
Characters ==
    ("a.png" :> <<"a", ".", "p", "n", "g">>)
    @@ ("A.PNG" :> <<"A", ".", "P", "N", "G">>)
    @@ ("a.bmp" :> <<"a", ".", "b", "m", "p">>)
    @@ ("a.tiff" :> <<"a", ".", "t", "i", "f", "f">>)
    @@ ("a.Tif" :> <<"a", ".", "T", "i", "f">>)
    @@ ("a.rgba" :> <<"a", ".", "r", "g", "b", "a">>)
    @@ ("a.fl32" :> <<"a", ".", "f", "l", "3", "2">>)
    @@ ("a.FL32" :> <<"a", ".", "F", "L", "3", "2">>)
    @@ ("a.txt" :> <<"a", ".", "t", "x", "t">>)
    @@ ("a.bin" :> <<"a", ".", "b", "i", "n">>)
    @@ ("a.dat" :> <<"a", ".", "d", "a", "t">>)
    @@ ("a.png.bak" :> <<"a", ".", "p", "n", "g", ".", "b", "a", "k">>)
    @@ ("apng" :> <<"a", "p", "n", "g">>)
    @@ ("png" :> <<"p", "n", "g">>)
    @@ (".bmp" :> <<".", "b", "m", "p">>)
    @@ (".png" :> <<".", "p", "n", "g">>)
    @@ (".tiff" :> <<".", "t", "i", "f", "f">>)
    @@ (".tif" :> <<".", "t", "i", "f">>)
    @@ (".rgba" :> <<".", "r", "g", "b", "a">>)
    @@ (".fl32" :> <<".", "f", "l", "3", "2">>)
    @@ (".txt" :> <<".", "t", "x", "t">>)
    @@ (".bin" :> <<".", "b", "i", "n">>)

LowerCase ==
    <<"a", "b", "c", "d", "e", "f", "g", "h", "i", "j", "k", "l", "m",
      "n", "o", "p", "q", "r", "s", "t", "u", "v", "w", "x", "y", "z">>

UpperCase ==
    <<"A", "B", "C", "D", "E", "F", "G", "H", "I", "J", "K", "L", "M",
      "N", "O", "P", "Q", "R", "S", "T", "U", "V", "W", "X", "Y", "Z">>

\* static char toupper(char c)
ToUpper(c) ==
    IF \E k \in DOMAIN LowerCase : LowerCase[k] = c
    THEN UpperCase[CHOOSE k \in DOMAIN LowerCase : LowerCase[k] = c]
    ELSE c

\* A variant that compares the characters as they are.
CmpExtensionExactCase(path, ext) ==
    \A k \in 0..(Len(ext) - 1) :
        /\ Len(path) - k >= 1
        /\ path[Len(path) - k] = ext[Len(ext) - k]

\* static bool cmpExtension(const char *path, const char *ext): the loop
\* from the last character of both; a < path when path is the shorter.
CmpExtension(path, ext) ==
    \A k \in 0..(Len(ext) - 1) :
        /\ Len(path) - k >= 1
        /\ ToUpper(path[Len(path) - k]) = ToUpper(ext[Len(ext) - k])

\* if (cmpExtension(config.imageFilename, ".png")) ... else if ...
\* (a build with PNG support); extension is the name of the image file.
ImageExtension(extension) ==
    LET path == Characters[extension]
    IN  CASE CmpExtension(path, Characters[".png"]) -> "PNG"
          [] CmpExtension(path, Characters[".bmp"]) -> "BMP"
          [] CmpExtension(path, Characters[".tiff"])
             \/ CmpExtension(path, Characters[".tif"]) -> "TIFF"
          [] CmpExtension(path, Characters[".rgba"]) -> "RGBA"
          [] CmpExtension(path, Characters[".fl32"]) -> "FL32"
          [] CmpExtension(path, Characters[".txt"]) -> "TEXT"
          [] CmpExtension(path, Characters[".bin"]) -> "BINARY"
          [] OTHER -> "UNSPECIFIED"

\* The format when -format was not given.
InferredFormat(imageExtension, arteryFontFilename) ==
    IF ~arteryFontFilename /\ imageExtension # "UNSPECIFIED"
    THEN imageExtension
    ELSE "PNG"

\* Whether the format mismatches the -imageout extension.
ExtensionMismatch(imageFormat, imageExtension) ==
    CASE imageFormat \in {"TEXT", "TEXT_FLOAT"} -> imageExtension # "TEXT"
      [] imageFormat \in {"BINARY", "BINARY_FLOAT", "BINARY_FLOAT_BE"} ->
           imageExtension # "BINARY"
      [] OTHER -> imageExtension # imageFormat

\* A variant that takes big-endian binary floats too.
ArteryFontFormatAnyBinary(imageFormat) ==
    imageFormat \in {"PNG", "BINARY", "BINARY_FLOAT", "BINARY_FLOAT_BE"}

\* config.imageFormat == PNG || config.imageFormat == BINARY ||
\* config.imageFormat == BINARY_FLOAT
ArteryFontFormat(imageFormat) ==
    imageFormat \in {"PNG", "BINARY", "BINARY_FLOAT"}

FinalizeImageFormat ==
    /\ pc = "format"
    /\ LET imageExtension == IF config.imageFilename
                             THEN ImageExtension(config.imageExtension)
                             ELSE "UNSPECIFIED"
           unspecified == config.imageFormat = "UNSPECIFIED"
           imageFormat == IF unspecified
                          THEN InferredFormat(imageExtension, config.arteryFontFilename)
                          ELSE config.imageFormat
           noArfont == config.arteryFontFilename /\ ~ArteryFontFormat(imageFormat)
           arfont == config.arteryFontFilename /\ ~noArfont
           nothing == ~(arfont \/ config.imageFilename \/ config.jsonFilename
                        \/ config.csvFilename \/ config.shadronPreviewFilename)
           messages ==
               (IF unspecified /\ ~config.arteryFontFilename
                   /\ imageExtension = "UNSPECIFIED" /\ config.imageFilename
                THEN {Message("format not inferred", "", 0, 0)} ELSE {})
               \cup (IF noArfont THEN {Message("no artery font", "", 0, 0)} ELSE {})
       IN  /\ config' = [config EXCEPT !.imageFormat = imageFormat,
                                       !.arteryFontFilename = arfont]
           /\ result' = IF noArfont THEN 1 ELSE result
           /\ IF noArfont /\ nothing
              THEN /\ pc' = "done"
                   /\ stderr' = stderr \cup messages
                   /\ UNCHANGED local
              ELSE /\ pc' = "load"
                   /\ stderr' = stderr \cup messages
                          \cup (IF imageExtension # "UNSPECIFIED"
                                   /\ ExtensionMismatch(imageFormat, imageExtension)
                                THEN {Message("extension mismatch", "", 0, 0)}
                                ELSE {})
                   /\ local' = [local EXCEPT
                         !.layoutOnly = IF noArfont
                                        THEN LayoutOnly(arfont, config.imageFilename)
                                        ELSE @,
                         !.floatingPointFormat = FloatingPointFormat(imageFormat),
                         !.spacing = SelectSpacing(config.imageType,
                                                   local.packingSpacing)]
    /\ UNCHANGED PipelineVars

\* Load fonts: n glyphs are loaded in all; with none the run is aborted.
\* codepoints is anyCodepointsAvailable after the loop: some input that is
\* read by code point has loaded a glyph.
LoadFonts ==
    /\ pc = "load"
    /\ \E n \in 0..MaxGlyphs, codepoints \in BOOLEAN :
         /\ LET byCodepoint == {k \in DOMAIN local.fontInputs :
                   local.fontInputs[k].glyphIdentifierType = "UNICODE_CODEPOINT"}
            IN  /\ codepoints => (n > 0 /\ byCodepoint # {})
                /\ (n > 0 /\ byCodepoint = DOMAIN local.fontInputs) => codepoints
         /\ local' = [local EXCEPT !.anyCodepointsAvailable = codepoints]
         /\ glyphs' = [i \in 0..(n - 1) |->
                          [x |-> 0, y |-> 0, w |-> 0, h |-> 0,
                           seed |-> NoSeed, colorings |-> 0]]
         /\ gen' = [i \in 0..(n - 1) |-> [runs |-> 0, ok |-> TRUE]]
         /\ IF n = 0
            THEN pc' = "done" /\ result' = 1
            ELSE pc' = "pack" /\ UNCHANGED result
    /\ UNCHANGED <<config, work, glyphSeed, glyphIt, bitmap, success,
                   sinks, stderr, atlas>>

(***************************************************************************)
(* Packing (PackingStyle::TIGHT).                                          *)
(***************************************************************************)
Pixels(W, H) == (0..(W - 1)) \X (0..(H - 1))

\* msdfgen::Range emRange = 0, pxRange = 0; switch (rangeUnits) ... and the
\* arguments of the setters main() calls on the packer before pack().
PackerSettings ==
    [fixedDimensions |-> local.fixedWidth >= 0 /\ local.fixedHeight >= 0,
     dimensions |-> IF local.fixedWidth >= 0 /\ local.fixedHeight >= 0
                    THEN <<local.fixedWidth, local.fixedHeight>> ELSE <<>>,
     dimensionsConstraint |-> IF local.fixedWidth >= 0 /\ local.fixedHeight >= 0
                              THEN "" ELSE local.atlasSizeConstraint,
     fixedScale |-> config.emSize > 0,
     scale |-> IF config.emSize > 0 THEN config.emSize ELSE 0,
     minimumScale |-> IF config.emSize > 0 THEN 0 ELSE local.minEmSize,
     spacing |-> local.spacing,
     emRange |-> IF local.rangeUnits = "EMS" THEN local.rangeValue
                 ELSE SymmetricalRange(0),
     pxRange |-> IF local.rangeUnits = "PIXELS" THEN local.rangeValue
                 ELSE SymmetricalRange(0)]

\* atlasPacker.pack(glyphs.data(), glyphs.size()) of the chosen strategy.
PackResults(set) ==
    IF local.packingStyle = "TIGHT"
    THEN TightPack(GlyphCount, set.fixedDimensions, local.fixedWidth,
                   local.fixedHeight, local.atlasSizeConstraint, set.spacing,
                   set.fixedScale, set.scale, set.minimumScale)
    ELSE GridPack(GlyphCount, local.fixedCellWidth >= 0 /\ local.fixedCellHeight >= 0,
                  local.fixedCellWidth, local.fixedCellHeight, config.grid.cols,
                  set.fixedDimensions, local.fixedWidth, local.fixedHeight,
                  set.fixedScale, set.scale, set.minimumScale)

\* A variant that goes on after a positive outcome as after a cutoff.
PackFatalOnlyNegative(remaining) == remaining < 0

\* if (int remaining = atlasPacker.pack(...)) { ... return 1; }
PackFatal(remaining) == remaining # 0

\* fprintf(stderr, "... %d ... %d ...", remaining, (int) glyphs.size())
ReportedCount(remaining) == remaining

\* A variant that keeps quiet about a cutoff.
CutoffWarnedNever(grid, cutoff) == FALSE

\* if (atlasPacker.hasCutoff()) fputs("...", stderr);  (grid strategy only)
CutoffWarned(grid, cutoff) == grid /\ cutoff

\* What main() does with the outcome r of pack().
PackOutcome(r) ==
    IF PackFatal(r.outcome)
    THEN /\ stderr' = stderr \cup
                {IF r.outcome < 0
                 THEN Message("pack failed", "", 0, 0)
                 ELSE Message("glyphs left over", "",
                              ReportedCount(r.outcome), GlyphCount)}
         /\ result' = 1
         /\ pc' = "done"
         /\ UNCHANGED <<config, glyphs, bitmap>>
    ELSE LET grid == local.packingStyle = "GRID"
             warned == IF CutoffWarned(grid, r.cutoff)
                       THEN stderr \cup {Message("cutoff", "", 0, 0)}
                       ELSE stderr
         IN  IF ~(r.width > 0 /\ r.height > 0)
             THEN /\ stderr' = warned \cup {Message("no dimensions", "", 0, 0)}
                  /\ result' = 1
                  /\ pc' = "done"
                  /\ UNCHANGED <<config, glyphs, bitmap>>
             ELSE /\ stderr' = warned
                  /\ glyphs' = [i \in Indices |->
                                   [glyphs[i] EXCEPT !.x = r.boxes[i + 1].x,
                                                     !.y = r.boxes[i + 1].y,
                                                     !.w = r.boxes[i + 1].w,
                                                     !.h = r.boxes[i + 1].h]]
                  /\ config' = [config EXCEPT
                                   !.width = r.width,
                                   !.height = r.height,
                                   !.emSize = r.scale,
                                   !.grid = IF grid
                                            THEN [cols |-> r.cols, rows |-> r.rows,
                                                  cellWidth |-> r.width \div r.cols,
                                                  cellHeight |-> r.height \div r.rows]
                                            ELSE @]
                  /\ bitmap' = <<>>
                  /\ pc' = "color"
                  /\ UNCHANGED result

\* Determine final atlas dimensions, scale and range, pack glyphs.
Pack ==
    /\ pc = "pack"
    /\ \E r \in PackResults(PackerSettings) :
         /\ local' = [local EXCEPT !.packer = PackerSettings,
                                   !.remaining = r.outcome,
                                   !.hasCutoff = r.cutoff]
         /\ PackOutcome(r)
    /\ UNCHANGED <<work, glyphSeed, glyphIt, gen, success, sinks, atlas>>

(***************************************************************************)
(* Workload (spec.md 4.4): the index range [0, n) is partitioned into one  *)
(* contiguous chunk per worker thread; each worker runs its indices in     *)
(* order, the workers interleave freely, and finish() returns when every   *)
(* worker has run all of its indices.                                      *)
(***************************************************************************)
Chunk(n, T, t) ==
    LET lo == (t * n) \div T
        hi == ((t + 1) * n) \div T
    IN  [k \in 1..(hi - lo) |-> lo + k - 1]

FanOut(n, T) == [t \in 0..(T - 1) |-> Chunk(n, T, t)]

Workers == DOMAIN work

Joined == \A t \in Workers : work[t] = <<>>

(***************************************************************************)
(* Edge coloring.                                                          *)
(***************************************************************************)
\* Variants of the seed computation, each differing from the source in one
\* place: without the factor !!coloringSeed, without the index, and with
\* the worker's number mixed in.
ExpensiveGlyphSeedNoSentinel(coloringSeed, i, threadNo) ==
    Add64(Mul64(LCG_MULTIPLIER, Xor64(coloringSeed, U64FromInt(i))), LCG_INCREMENT)

ExpensiveGlyphSeedNoIndex(coloringSeed, i, threadNo) ==
    Mul64(Add64(Mul64(LCG_MULTIPLIER, coloringSeed), LCG_INCREMENT),
          U64FromInt(IF coloringSeed # U64Zero THEN 1 ELSE 0))

ExpensiveGlyphSeedPerThread(coloringSeed, i, threadNo) ==
    Mul64(Add64(Mul64(LCG_MULTIPLIER,
                      Xor64(coloringSeed, U64FromInt(i + threadNo))),
                LCG_INCREMENT),
          U64FromInt(IF coloringSeed # U64Zero THEN 1 ELSE 0))

\* unsigned long long glyphSeed =
\*     (LCG_MULTIPLIER*(config.coloringSeed^i)+LCG_INCREMENT)*!!config.coloringSeed;
ExpensiveGlyphSeed(coloringSeed, i, threadNo) ==
    Mul64(Add64(Mul64(LCG_MULTIPLIER, Xor64(coloringSeed, U64FromInt(i))),
                LCG_INCREMENT),
          U64FromInt(IF coloringSeed # U64Zero THEN 1 ELSE 0))

\* A variant that takes a full generator step, multiplier and increment.
CheapGlyphSeedWithIncrement(seed) ==
    Add64(Mul64(seed, LCG_MULTIPLIER), LCG_INCREMENT)

\* glyphSeed *= LCG_MULTIPLIER;
CheapGlyphSeed(seed) == Mul64(seed, LCG_MULTIPLIER)

\* A variant that leaves the last glyph out.
ColoringChunksShort == GlyphCount - 1

\* The number of chunks the coloring Workload is built with.
ColoringChunks == GlyphCount

\* glyph.edgeColoring(config.edgeColoring, config.angleThreshold, seed)
ApplyEdgeColoring(i, seed) ==
    [glyphs EXCEPT ![i].seed = seed, ![i].colorings = @ + 1]

\* A variant that hands every coloring to the Workload.
ColoringPolicyAlwaysParallel(expensiveColoring) == "coloring_parallel"

\* if (config.expensiveColoring) { Workload(...).finish(...); }
\* else { for (GlyphGeometry &glyph : glyphs) ... }
ColoringPolicy(expensiveColoring) ==
    IF expensiveColoring THEN "coloring_parallel" ELSE "coloring_sequential"

\* if (!layoutOnly) { if (MSDF || MTSDF) { if (expensiveColoring) ... else ... } }
EdgeColoring ==
    /\ pc = "color"
    /\ IF local.layoutOnly
       THEN pc' = "csv" /\ UNCHANGED <<work, glyphSeed, glyphIt>>
       ELSE IF ~MultiChannel(config.imageType)
       THEN pc' = "generate" /\ UNCHANGED <<work, glyphSeed, glyphIt>>
       ELSE IF ColoringPolicy(config.expensiveColoring) = "coloring_parallel"
       THEN /\ work' = FanOut(ColoringChunks, config.threadCount)
            /\ pc' = "coloring_parallel"
            /\ UNCHANGED <<glyphSeed, glyphIt>>
       ELSE /\ glyphSeed' = config.coloringSeed
            /\ glyphIt' = 0
            /\ pc' = "coloring_sequential"
            /\ UNCHANGED work
    /\ UNCHANGED <<stderr, atlas, config, local, glyphs, gen, bitmap, success, result, sinks>>

\* One run of the coloring lambda, on worker thread t.
ColorTask(t) ==
    /\ pc = "coloring_parallel"
    /\ work[t] # <<>>
    /\ LET i == Head(work[t])
       IN  glyphs' = ApplyEdgeColoring(i, ExpensiveGlyphSeed(config.coloringSeed, i, t))
    /\ work' = [work EXCEPT ![t] = Tail(@)]
    /\ UNCHANGED <<stderr, atlas, pc, config, local, glyphSeed, glyphIt, gen, bitmap,
                   success, result, sinks>>

\* finish() returns; its result is not used.
ColorJoin ==
    /\ pc = "coloring_parallel"
    /\ Joined
    /\ pc' = "generate"
    /\ work' = <<>>
    /\ UNCHANGED <<stderr, atlas, config, local, glyphs, glyphSeed, glyphIt, gen, bitmap,
                   success, result, sinks>>

\* One iteration of for (GlyphGeometry &glyph : glyphs).
ColorNext ==
    /\ pc = "coloring_sequential"
    /\ glyphIt < GlyphCount
    /\ glyphSeed' = CheapGlyphSeed(glyphSeed)
    /\ glyphs' = ApplyEdgeColoring(glyphIt, glyphSeed')
    /\ glyphIt' = glyphIt + 1
    /\ pc' = IF glyphIt' = GlyphCount THEN "generate" ELSE pc
    /\ UNCHANGED <<stderr, atlas, config, local, work, gen, bitmap, success, result, sinks>>

(***************************************************************************)
(* Bitmap generation: makeAtlas and ImmediateAtlasGenerator (spec.md 4.5). *)
(* One task per glyph computes the glyph's samples and stores them into    *)
(* the glyph's box of the atlas bitmap.                                    *)
(***************************************************************************)
InBox(g, p) ==
    /\ p[1] >= g.x /\ p[1] < g.x + g.w
    /\ p[2] >= g.y /\ p[2] < g.y + g.h

OnBoxBorder(g, p) ==
    \/ p[1] = g.x \/ p[1] = g.x + g.w - 1
    \/ p[2] = g.y \/ p[2] = g.y + g.h - 1

\* The sample glyph i's generator computes for pixel p.  The border pixels
\* of a box are black in 8-bit storage; floating-point storage keeps the
\* computed value.
GlyphSample(i, p) ==
    IF ~local.floatingPointFormat /\ OnBoxBorder(glyphs[i], p) THEN 0 ELSE i + 1

\* storage.put(l, b, glyphBitmap)
PutGlyph(bm, i) ==
    [p \in DOMAIN bm |-> IF InBox(glyphs[i], p) THEN GlyphSample(i, p) ELSE bm[p]]

\* A variant in which the soft mask is drawn by the scanline generator.
MakeAtlasSoftMaskScanline(imageType, floatingPointFormat) ==
    [T |-> IF floatingPointFormat THEN "float" ELSE "byte",
     N |-> CASE imageType = "MSDF" -> 3 [] imageType = "MTSDF" -> 4 [] OTHER -> 1,
     GEN_FN |-> CASE imageType \in {"HARD_MASK", "SOFT_MASK"} -> "scanlineGenerator"
                  [] imageType = "SDF" -> "sdfGenerator"
                  [] imageType = "PSDF" -> "psdfGenerator"
                  [] imageType = "MSDF" -> "msdfGenerator"
                  [] imageType = "MTSDF" -> "mtsdfGenerator"]

\* switch (config.imageType) { case ...: if (floatingPointFormat)
\*     success = makeAtlas<float, float, N, GEN_FN>(...); else
\*     success = makeAtlas<byte, float, N, GEN_FN>(...); }
MakeAtlas(imageType, floatingPointFormat) ==
    CASE imageType = "HARD_MASK" ->
           IF floatingPointFormat
           THEN [T |-> "float", N |-> 1, GEN_FN |-> "scanlineGenerator"]
           ELSE [T |-> "byte", N |-> 1, GEN_FN |-> "scanlineGenerator"]
      [] imageType \in {"SOFT_MASK", "SDF"} ->
           IF floatingPointFormat
           THEN [T |-> "float", N |-> 1, GEN_FN |-> "sdfGenerator"]
           ELSE [T |-> "byte", N |-> 1, GEN_FN |-> "sdfGenerator"]
      [] imageType = "PSDF" ->
           IF floatingPointFormat
           THEN [T |-> "float", N |-> 1, GEN_FN |-> "psdfGenerator"]
           ELSE [T |-> "byte", N |-> 1, GEN_FN |-> "psdfGenerator"]
      [] imageType = "MSDF" ->
           IF floatingPointFormat
           THEN [T |-> "float", N |-> 3, GEN_FN |-> "msdfGenerator"]
           ELSE [T |-> "byte", N |-> 3, GEN_FN |-> "msdfGenerator"]
      [] imageType = "MTSDF" ->
           IF floatingPointFormat
           THEN [T |-> "float", N |-> 4, GEN_FN |-> "mtsdfGenerator"]
           ELSE [T |-> "byte", N |-> 4, GEN_FN |-> "mtsdfGenerator"]

\* switch (config.imageType) ... makeAtlas<...>(glyphs, fonts, config):
\* the generator is constructed, given the thread count, and started.
Generate ==
    /\ pc = "generate"
    /\ bitmap' = [p \in Pixels(config.width, config.height) |-> 0]
    /\ work' = FanOut(GlyphCount, config.threadCount)
    /\ atlas' = MakeAtlas(config.imageType, local.floatingPointFormat)
    /\ pc' = "generating"
    /\ UNCHANGED <<stderr, config, local, glyphs, glyphSeed, glyphIt, gen, success,
                   result, sinks>>

\* One generation task, on worker thread t; a task may fail.
GenTask(t) ==
    /\ pc = "generating"
    /\ work[t] # <<>>
    /\ LET i == Head(work[t])
       IN  \E ok \in BOOLEAN :
             /\ gen' = [gen EXCEPT ![i] = [runs |-> @.runs + 1, ok |-> ok]]
             /\ bitmap' = IF ok THEN PutGlyph(bitmap, i) ELSE bitmap
    /\ work' = [work EXCEPT ![t] = Tail(@)]
    /\ UNCHANGED <<stderr, atlas, pc, config, local, glyphs, glyphSeed, glyphIt, success,
                   result, sinks>>

\* generator.generate() returns; makeAtlas goes on with success = true.
GenJoin ==
    /\ pc = "generating"
    /\ Joined
    /\ work' = <<>>
    /\ success' = TRUE
    /\ pc' = "image"
    /\ UNCHANGED <<stderr, atlas, config, local, glyphs, glyphSeed, glyphIt, gen, bitmap,
                   result, sinks>>

\* The sinks that returned false so far, after sink name returned ok.
Failed(failed, name, ok) == IF ok THEN failed ELSE failed \cup {name}

\* A variant that forgets an earlier failure when a sink succeeds.
ExportResultOfLast(status, written) == IF written THEN 0 ELSE 1

\* if (exportCSV(...)) ... else { result = 1; ... }, and the same for the
\* JSON file and the Shadron preview.
ExportResult(status, written) == IF written THEN status ELSE 1

\* if (config.imageFilename) { if (saveImage(...)) ... else success = false; }
SaveImage ==
    /\ pc = "image"
    /\ IF config.imageFilename
       THEN /\ sinks' = Append(sinks, "image")
            /\ \E saved \in BOOLEAN :
                 /\ success' = (success /\ saved)
                 /\ local' = [local EXCEPT !.failed = Failed(@, "image", saved)]
       ELSE UNCHANGED <<sinks, success, local>>
    /\ pc' = "arfont"
    /\ UNCHANGED <<stderr, atlas, config, glyphs, work, glyphSeed, glyphIt, gen,
                   bitmap, result>>

\* if (config.arteryFontFilename) { ... }  return success;
\* and in main: if (!success) result = 1;
ExportArteryFont ==
    /\ pc = "arfont"
    /\ IF config.arteryFontFilename
       THEN /\ sinks' = Append(sinks, "arfont")
            /\ \E exported \in BOOLEAN :
                 /\ success' = (success /\ exported)
                 /\ local' = [local EXCEPT !.failed = Failed(@, "arfont", exported)]
       ELSE UNCHANGED <<sinks, success, local>>
    /\ result' = IF ~success' THEN 1 ELSE result
    /\ pc' = "csv"
    /\ UNCHANGED <<stderr, atlas, config, glyphs, work, glyphSeed, glyphIt, gen, bitmap>>

\* A variant that calls the sink twice.
ExportTwice(at, requested, name, next) ==
    /\ pc = at
    /\ IF requested
       THEN /\ sinks' = Append(Append(sinks, name), name)
            /\ \E written \in BOOLEAN :
                 /\ result' = ExportResult(result, written)
                 /\ local' = [local EXCEPT !.failed = Failed(@, name, written)]
       ELSE UNCHANGED <<sinks, result, local>>
    /\ pc' = next
    /\ UNCHANGED <<stderr, atlas, config, glyphs, work, glyphSeed, glyphIt, gen,
                   bitmap, success>>

\* One of the sinks main() calls itself.
Export(at, requested, name, next) ==
    /\ pc = at
    /\ IF requested
       THEN /\ sinks' = Append(sinks, name)
            /\ \E written \in BOOLEAN :
                 /\ result' = ExportResult(result, written)
                 /\ local' = [local EXCEPT !.failed = Failed(@, name, written)]
       ELSE UNCHANGED <<sinks, result, local>>
    /\ pc' = next
    /\ UNCHANGED <<stderr, atlas, config, glyphs, work, glyphSeed, glyphIt, gen,
                   bitmap, success>>

ExportCSV == Export("csv", config.csvFilename, "csv", "json")

ExportJSON == Export("json", config.jsonFilename, "json", "shadron")

\* if (config.shadronPreviewFilename && config.shadronPreviewText) { ... }
\* return result;
ExportShadron ==
    /\ pc = "shadron"
    /\ IF config.shadronPreviewFilename
       THEN IF local.anyCodepointsAvailable
            THEN /\ sinks' = Append(sinks, "shadron")
                 /\ \E written \in BOOLEAN :
                      /\ result' = ExportResult(result, written)
                      /\ local' = [local EXCEPT !.failed = Failed(@, "shadron", written)]
            ELSE result' = 1 /\ UNCHANGED <<sinks, local>>
       ELSE UNCHANGED <<sinks, result, local>>
    /\ pc' = "done"
    /\ UNCHANGED <<stderr, atlas, config, glyphs, work, glyphSeed, glyphIt, gen,
                   bitmap, success>>

Next ==
    \/ Pack
    \/ EdgeColoring
    \/ \E t \in Workers : ColorTask(t)
    \/ ColorJoin
    \/ ColorNext
    \/ Generate
    \/ \E t \in Workers : GenTask(t)
    \/ GenJoin
    \/ SaveImage
    \/ ExportArteryFont
    \/ ExportCSV
    \/ ExportJSON
    \/ ExportShadron

(***************************************************************************)
(* Command lines.  Every line names a font and an output; between them it  *)
(* has up to MaxArgs options of one group, in any order and repeated.      *)
(***************************************************************************)
ArgLists(options) == UNION {[1..k -> options] : k \in 0..MaxArgs}

TypeOptions == {Option("-type", v, 0, 0) : v \in DOMAIN TypeNames}

FormatOptions == {Option("-format", v, 0, 0) : v \in DOMAIN FormatNames}

RangeOptions ==
    {Option("-type", "hardmask", 0, 0), Option("-type", "softmask", 0, 0),
     Option("-type", "psdf", 0, 0), Option("-emrange", "", 1, 0),
     Option("-pxrange", "", 4, 0), Option("-pxrange", "", 0, 0),
     Option("-aemrange", "", 0, 1), Option("-apxrange", "", -1, 3)}

ScaleOptions ==
    {Option("-size", "", 16, 0), Option("-size", "", 48, 0),
     Option("-minsize", "", 16, 0), Option("-minsize", "", 48, 0),
     Option("-dimensions", "", 8, 4), Option("-dimensions", "", 2, 1),
     Option("-square", "", 0, 0), Option("-uniformgrid", "", 0, 0),
     Option("-uniformcell", "", 2, 2), Option("-uniformcell", "", 6, 6)}

CorrectionOptions ==
    {Option("-scanline", "", 0, 0), Option("-noscanline", "", 0, 0)}
    \cup {Option("-errorcorrection", v, 0, 0) :
            v \in {"disabled", "auto-mixed", "auto-fast", "auto-full",
                   "distance-fast", "distance-full", "edge-fast", "edge-full",
                   "edge"}}

ThreadOptions ==
    {Option("-threads", "", a, 0) : a \in -1..MaxThreads}
    \cup {Option("-coloringstrategy", "distance", 0, 0),
          Option("-coloringstrategy", "simple", 0, 0),
          Option("-type", "mtsdf", 0, 0)}

\* -spacing with a number, with 4294967295 (or -1) and with a word.
SpacingOptions ==
    {Option("-spacing", "", a, 0) : a \in -1..(MaxSpacingArg + 1)}
    \cup {Option("-spacing", "wide", 0, 0),
          Option("-type", "hardmask", 0, 0), Option("-type", "sdf", 0, 0),
          Option("-type", "psdf", 0, 0), Option("-type", "mtsdf", 0, 0)}

Font == <<Option("-font", "ttf", 0, 0)>>

ImageOut(extension) == <<Option("-imageout", extension, 0, 0)>>

RangeLines == {Font \o m \o ImageOut("a.png") : m \in ArgLists(RangeOptions)}

ScaleLines == {Font \o m \o ImageOut("a.png") : m \in ArgLists(ScaleOptions)}

CorrectionLines == {Font \o m \o ImageOut("a.png") : m \in ArgLists(CorrectionOptions)}

ThreadLines == {Font \o m \o ImageOut("a.png") : m \in ArgLists(ThreadOptions)}

SpacingLines == {Font \o m \o ImageOut("a.png") : m \in ArgLists(SpacingOptions)}

\* Every image type with every format, given by -format before and after
\* -type or taken from the extension of the image file.
DispatchLines ==
    {Font \o <<t, f>> \o ImageOut("a.png") : t \in TypeOptions, f \in FormatOptions}
    \cup {Font \o <<f, t>> \o ImageOut("a.png") : t \in TypeOptions, f \in FormatOptions}
    \cup {Font \o <<t>> \o ImageOut(e) :
            t \in TypeOptions,
            e \in {"a.png", "a.bmp", "a.tiff", "a.fl32", "a.bin", "a.dat"}}

\* A scale, an atlas size and a layout together.
PackLines ==
    {Font \o <<s, d, l>> \o ImageOut("a.png") :
        s \in {Option("-size", "", 16, 0), Option("-size", "", 48, 0),
               Option("-minsize", "", 16, 0), Option("-minsize", "", 48, 0)},
        d \in {Option("-dimensions", "", 8, 4), Option("-dimensions", "", 4, 2),
               Option("-dimensions", "", 2, 1)},
        l \in {Option("-uniformgrid", "", 0, 0), Option("-uniformcell", "", 2, 2),
               Option("-uniformcell", "", 6, 6), Option("-spacing", "", 1, 0)}}

\* Lines with other outputs, without an output, without a font, and the
\* empty line.
OtherLines ==
    {<<>>, Font, ImageOut("a.png"),
     Font \o <<Option("-json", "", 0, 0)>>,
     Font \o <<Option("-csv", "", 0, 0), Option("-type", "none", 0, 0)>>,
     Font \o <<Option("-arfont", "", 0, 0)>>,
     Font \o <<Option("-arfont", "", 0, 0), Option("-format", "tiff", 0, 0)>>,
     Font \o <<Option("-arfont", "", 0, 0), Option("-format", "bmp", 0, 0),
               Option("-json", "", 0, 0)>>}

\* -dimensions with two numbers, with 4294967295 (or -1) for the width and
\* with a zero, the five constraints, and the grid layout.
DimensionOptions ==
    {Option("-dimensions", "", 8, 4), Option("-dimensions", "", -1, 8),
     Option("-dimensions", "", 0, 4), Option("-uniformgrid", "", 0, 0)}
    \cup {Option(o, "", 0, 0) : o \in DOMAIN ConstraintOptions}

DimensionLines == {Font \o m \o ImageOut("a.png") : m \in ArgLists(DimensionOptions)}

\* The three strategies under both names of the option, and words that
\* are none of them.
ColoringOptions ==
    {Option("-coloringstrategy", v, 0, 0) :
        v \in {"simple", "inktrap", "distance", "fast"}}
    \cup {Option("-edgecoloring", v, 0, 0) : v \in {"distance", "simple", "Distance"}}

ColoringLines == {Font \o m \o ImageOut("a.png") : m \in ArgLists(ColoringOptions)}

\* The five outputs, in the order the lines of the model give them.
Outputs ==
    <<Option("-arfont", "", 0, 0), Option("-imageout", "a.png", 0, 0),
      Option("-json", "", 0, 0), Option("-csv", "", 0, 0),
      Option("-shadronpreview", "", 0, 0)>>

\* The outputs at the positions in S.
OutputList(S) == SelectSeq(Outputs, LAMBDA o : \E k \in S : Outputs[k] = o)

\* Every set of outputs, after a format, a single-channel type or a glyph
\* set; and an Artery Font with every format.
OutputLines ==
    {Font \o m \o OutputList(S) :
        m \in {<<>>, <<Option("-format", "tiff", 0, 0)>>,
               <<Option("-format", "bin", 0, 0)>>,
               <<Option("-format", "binfloatbe", 0, 0)>>,
               <<Option("-type", "sdf", 0, 0)>>,
               <<Option("-allglyphs", "", 0, 0)>>,
               <<Option("-and", "", 0, 0), Option("-allglyphs", "", 0, 0)>>},
        S \in SUBSET DOMAIN Outputs}
    \cup {Font \o <<f>> \o OutputList(S) :
            f \in FormatOptions, S \in {{1}, {1, 3}}}

\* The names of image files: the extensions the program knows, in lower
\* and upper case, and names that only look like them.
ImageFileNames ==
    {"a.png", "A.PNG", "a.bmp", "a.tiff", "a.Tif", "a.rgba", "a.fl32", "a.FL32",
     "a.txt", "a.bin", "a.dat", "a.png.bak", "apng", "png", ".bmp"}

\* An image file of every name, alone, after another image file, with an
\* Artery Font and with -format.
ExtensionLines ==
    {Font \o m \o ImageOut(e) :
        m \in {<<>>, ImageOut("a.bmp"), <<Option("-arfont", "", 0, 0)>>,
               <<Option("-format", "bin", 0, 0)>>},
        e \in ImageFileNames}
    \cup {Font \o ImageOut(e) \o <<Option("-json", "", 0, 0)>> : e \in ImageFileNames}

CommandLines ==
    DimensionLines \cup ColoringLines \cup ExtensionLines \cup RangeLines \cup ScaleLines \cup CorrectionLines \cup ThreadLines
    \cup SpacingLines \cup OutputLines
    \cup DispatchLines \cup PackLines \cup OtherLines

\* main() is entered with one of the command lines, on a machine with
\* hardware threads detected (0 when the number is not known), in a build
\* with or without Skia.
InitMain ==
    \E line \in CommandLines, hardware \in 0..MaxThreads, skia \in BOOLEAN :
        /\ hardware = 1 \/ line \in ThreadLines
           \/ line = Font \o OutputList(DOMAIN Outputs)
        /\ ~skia \/ line \in CorrectionLines
        /\ pc = "parse"
        /\ config = InitialConfig(skia)
        /\ local = InitialLocal(line, hardware)
        /\ glyphs = <<>>
        /\ work = <<>>
        /\ glyphSeed = U64Zero
        /\ glyphIt = 0
        /\ gen = <<>>
        /\ bitmap = <<>>
        /\ success = FALSE
        /\ result = 0
        /\ sinks = <<>>
        /\ stderr = {}
        /\ atlas = NoAtlas

\* main() from its first statement.
NextMain ==
    \/ ParseArg
    \/ CheckInputs
    \/ FixUp
    \/ FinalizeImageFormat
    \/ LoadFonts
    \/ Next

Spec == Init /\ [][Next]_vars

SpecLayout == InitLayout /\ [][Next]_vars

SpecMain == InitMain /\ [][NextMain]_vars

\* The options that make up font inputs, and the separator.
FontOptions ==
    {Option("-font", "a.ttf", 0, 0), Option("-charset", "c.txt", 0, 0),
     Option("-allglyphs", "", 0, 0), Option("-fontscale", "", 2, 0),
     Option("-fontname", "n", 0, 0), Option("-and", "", 0, 0)}

\* Up to MaxFontArgs of them in any order, and an image file.
FontLines ==
    {m \o ImageOut("a.png") :
        m \in UNION {[1..k -> FontOptions] : k \in 0..MaxFontArgs}}

\* main() is entered with one of these lines.
InitFonts ==
    \E line \in FontLines :
        /\ pc = "parse"
        /\ config = InitialConfig(FALSE)
        /\ local = InitialLocal(line, 1)
        /\ glyphs = <<>>
        /\ work = <<>>
        /\ glyphSeed = U64Zero
        /\ glyphIt = 0
        /\ gen = <<>>
        /\ bitmap = <<>>
        /\ success = FALSE
        /\ result = 0
        /\ sinks = <<>>
        /\ stderr = {}
        /\ atlas = NoAtlas

\* main() up to the end of font loading.
NextFonts ==
    \/ ParseArg
    \/ CheckInputs
    \/ FixUp
    \/ FinalizeImageFormat
    \/ LoadFonts

SpecFonts == InitFonts /\ [][NextFonts]_vars

(***************************************************************************)
(* Properties.                                                             *)
(***************************************************************************)
Colored(i) == glyphs[i].colorings > 0

\* main() is past the edge-coloring block of a run that colors its glyphs.
ColoringRan ==
    /\ ~local.layoutOnly
    /\ MultiChannel(config.imageType)
    /\ \/ pc \in {"generate", "generating", "image", "arfont", "csv", "json", "shadron"}
       \/ pc = "done" /\ config.width > 0

RECURSIVE Pow64(_, _)
Pow64(b, e) == IF e = 0 THEN U64FromInt(1) ELSE Mul64(b, Pow64(b, e - 1))

\* C1: under the expensive policy the seed glyph i is colored with is
\* (K * (S xor i) + C) mod 2^64 when the global seed S is not 0, and 0 when
\* S is 0; for S = 1 that is K + C for glyph 0 and C for glyph 1.
C1_ExpensiveSeedFormula ==
    \A i \in Indices :
        (config.expensiveColoring /\ Colored(i)) =>
            /\ glyphs[i].seed =
                   IF config.coloringSeed = U64Zero THEN U64Zero
                   ELSE Add64(Mul64(LCG_MULTIPLIER,
                                    Xor64(config.coloringSeed, U64FromInt(i))),
                              LCG_INCREMENT)
            /\ (config.coloringSeed = U64FromInt(1) /\ i = 0) =>
                   glyphs[i].seed = U64FromDecimal(7, 806831264, 735756412)
            /\ (config.coloringSeed = U64FromInt(1) /\ i = 1) =>
                   glyphs[i].seed = U64FromDecimal(1, 442695040, 888963407)

C1_Witness ==
    /\ ColoringRan /\ config.expensiveColoring
    /\ config.coloringSeed = U64FromInt(1)
    /\ GlyphCount >= 2
    /\ \A i \in Indices : Colored(i)
    /\ glyphs[1].seed = LCG_INCREMENT

\* C2: under the expensive policy with a global seed other than 0, two
\* different glyphs are never colored with the same seed.
C2_ExpensiveSeedsDistinct ==
    (config.expensiveColoring /\ config.coloringSeed # U64Zero) =>
        \A i, j \in Indices :
            (i # j /\ Colored(i) /\ Colored(j)) => glyphs[i].seed # glyphs[j].seed

C2_Witness ==
    /\ ColoringRan /\ config.expensiveColoring
    /\ config.coloringSeed # U64Zero
    /\ GlyphCount >= 2
    /\ \A i \in Indices : Colored(i)

\* C3: under the cheap policy the glyphs are colored in list order (the
\* colored glyphs are always a prefix of the list), and the glyph at
\* position k is colored with S * K^(k+1) mod 2^64.
C3_CheapSeedSequence ==
    ~config.expensiveColoring =>
        /\ \A i, j \in Indices : (i < j /\ Colored(j)) => Colored(i)
        /\ \A k \in Indices :
              Colored(k) =>
                  glyphs[k].seed =
                      Mul64(config.coloringSeed, Pow64(LCG_MULTIPLIER, k + 1))
        /\ (config.coloringSeed = U64FromInt(1) /\ 1 \in Indices /\ Colored(1)) =>
              glyphs[1].seed = U64FromDecimal(7, 520897724, 310334953)

C3_Witness ==
    /\ ColoringRan /\ ~config.expensiveColoring
    /\ config.coloringSeed \notin {U64Zero, U64FromInt(1)}
    /\ GlyphCount >= 3
    /\ \A i \in Indices : Colored(i)

\* The seed glyph i gets in the run with a single thread: the tasks run in
\* index order on thread 0, the loop of the cheap policy runs as it is.
RECURSIVE CheapSeedAt(_, _)
CheapSeedAt(S, k) ==
    IF k = 0 THEN CheapGlyphSeed(S) ELSE CheapGlyphSeed(CheapSeedAt(S, k - 1))

SingleThreadSeed(i) ==
    IF config.expensiveColoring
    THEN ExpensiveGlyphSeed(config.coloringSeed, i, 0)
    ELSE CheapSeedAt(config.coloringSeed, i)

\* C4: whatever the thread count and the order in which the coloring tasks
\* run, every glyph is colored with the seed it gets in the single-thread
\* run with the same global seed, strategy and glyph order.
C4_SeedsIndependentOfThreads ==
    \A i \in Indices : Colored(i) => glyphs[i].seed = SingleThreadSeed(i)

\* Two threads, and glyph 1 colored while glyph 0 is not yet.
C4_Witness ==
    /\ pc = "coloring_parallel"
    /\ config.threadCount >= 2
    /\ config.coloringSeed # U64Zero
    /\ 1 \in Indices /\ Colored(1) /\ ~Colored(0)

\* C6: no coloring task runs twice, and once main() is past the coloring
\* fan-out (generation included) the task has run exactly once for every
\* glyph; no generation task runs before that.
C6_ColoringCompleteBeforeGeneration ==
    /\ \A i \in Indices : glyphs[i].colorings <= 1
    /\ (ColoringRan /\ config.expensiveColoring) =>
           \A i \in Indices : glyphs[i].colorings = 1
    /\ (\E i \in Indices : gen[i].runs > 0) =>
           (MultiChannel(config.imageType) =>
               \A i \in Indices : glyphs[i].colorings = 1)

C6_Witness ==
    /\ pc = "generating"
    /\ config.expensiveColoring /\ MultiChannel(config.imageType)
    /\ config.threadCount >= 2 /\ GlyphCount >= 3
    /\ \E i \in Indices : gen[i].runs > 0
    /\ \E i \in Indices : gen[i].runs = 0

\* Two boxes share a pixel.
Overlap(g, h) ==
    /\ g.x < h.x + h.w /\ h.x < g.x + g.w
    /\ g.y < h.y + h.h /\ h.y < g.y + g.h

\* Two boxes are at least sp pixels apart along one axis.
Apart(g, h, sp) ==
    \/ g.x + g.w + sp <= h.x \/ h.x + h.w + sp <= g.x
    \/ g.y + g.h + sp <= h.y \/ h.y + h.h + sp <= g.y

Inside(g, W, H) ==
    /\ 0 <= g.x /\ g.x + g.w <= W
    /\ 0 <= g.y /\ g.y + g.h <= H

\* pack() has returned 0.
Packed == config.width > 0

\* The bitmap of the single-thread run: the tasks store their boxes one
\* after another in index order.
RECURSIVE StoredInOrder(_, _)
StoredInOrder(bm, i) ==
    IF i >= GlyphCount THEN bm
    ELSE StoredInOrder(IF gen[i].ok THEN PutGlyph(bm, i) ELSE bm, i + 1)

SingleThreadBitmap ==
    StoredInOrder([p \in Pixels(config.width, config.height) |-> 0], 0)

\* C5: once generation has finished, the bitmap is the one the
\* single-thread run produces, whatever the thread count and the order in
\* which the generation tasks ran.
C5_BitmapIndependentOfThreads ==
    pc \in {"image", "arfont", "csv", "json", "shadron", "done"} /\ bitmap # <<>>
        => bitmap = SingleThreadBitmap

\* C7: when the run has ended after a packing that succeeded, every
\* generation task has run although some task failed, and a failed task
\* makes the exit status non-zero.
C7_TaskFailureFailsRun ==
    (pc = "done" /\ Packed /\ ~local.layoutOnly) =>
        /\ \A i \in Indices : gen[i].runs = 1
        /\ (\E i \in Indices : ~gen[i].ok) => result # 0

\* C8: no pixel of the atlas is stored by two generation tasks: the boxes
\* of any two glyphs whose tasks have stored their samples share no pixel.
C8_NoPixelWrittenTwice ==
    \A i, j \in Indices :
        (i # j /\ gen[i].runs > 0 /\ gen[i].ok /\ gen[j].runs > 0 /\ gen[j].ok) =>
            ~Overlap(glyphs[i], glyphs[j])

\* C9: the spacing handed to the packer is never negative.
C9_SpacingNonNegative ==
    pc # "pack" => local.spacing >= 0

\* C10: after a tight pack that returned 0, the boxes are pairwise
\* disjoint, lie inside the reported atlas dimensions, and any two are at
\* least `spacing` pixels apart.
C10_TightPackDisjoint ==
    Packed =>
        /\ \A i \in Indices : Inside(glyphs[i], config.width, config.height)
        /\ \A i, j \in Indices :
              i # j => /\ ~Overlap(glyphs[i], glyphs[j])
                       /\ Apart(glyphs[i], glyphs[j], local.spacing)

(***************************************************************************)
(* Properties of main() from the command line on (SpecMain).               *)
(***************************************************************************)
\* pack() has been called.
PackCalled == local.packer # <<>>

\* Nothing after packing has happened: no glyph is colored, no makeAtlas
\* instantiation was called, no generation task ran, no sink was invoked.
NothingAfterPacking ==
    /\ \A i \in Indices : glyphs[i].colorings = 0 /\ gen[i].runs = 0
    /\ atlas = NoAtlas
    /\ bitmap = <<>>
    /\ work = <<>>
    /\ sinks = <<>>

LeftOverMessages == {m \in stderr : m.msg = "glyphs left over"}

\* C11: when pack() returns a non-zero outcome, in the tight or the grid
\* strategy, the run has stopped with exit status 1 and no edge coloring,
\* bitmap generation or output sink has been invoked; for a positive
\* outcome k the count reported on stderr is k.
C11_PackFailureStopsRun ==
    (PackCalled /\ local.remaining # 0) =>
        /\ pc = "done"
        /\ result = 1
        /\ NothingAfterPacking
        /\ local.remaining > 0 =>
             LeftOverMessages =
                 {Message("glyphs left over", "", local.remaining, GlyphCount)}

\* The grid packer left one of three glyphs unplaced.
C11_Witness ==
    /\ PackCalled /\ pc = "done"
    /\ local.packingStyle = "GRID"
    /\ local.remaining = 1 /\ GlyphCount = 3
    /\ result = 1

\* A run in which the grid packer returned 0 and reported a cutoff.
CutoffRun ==
    /\ PackCalled
    /\ local.packingStyle = "GRID"
    /\ local.remaining = 0
    /\ local.hasCutoff

\* C12: when the grid packer returns 0 and reports a cutoff, the cutoff
\* warning is on stderr, the run goes on from packing to edge coloring,
\* generation and export, and from then on the exit status changes only
\* in the steps that invoke an output sink.
C12_CutoffWarnsAndContinues ==
    [][CutoffRun' =>
          /\ Message("cutoff", "", 0, 0) \in stderr'
          /\ pc = "pack" => pc' = "color"
          /\ result' # result => pc \in {"arfont", "csv", "json", "shadron"}]_vars

\* A run with a cutoff that ended with exit status 0, its image written.
C12_Witness ==
    /\ CutoffRun /\ pc = "done" /\ result = 0
    /\ sinks = <<"image">>
    /\ \A i \in Indices : gen[i].runs = 1

\* The positions of the command line that hold one of the options.
Given(options) == {k \in DOMAIN local.argv : local.argv[k].opt \in options}

RangeGiven == Given({"-emrange", "-pxrange", "-aemrange", "-apxrange"})

\* C13: for the image types hardmask and softmask the packer is handed a
\* pixel range of exactly 1 pixel and an em range of 0, whatever range
\* options the command line has, before or after -type.
C13_MaskRangeIsOnePixel ==
    (PackCalled /\ config.imageType \in {"HARD_MASK", "SOFT_MASK"}) =>
        /\ local.packer.pxRange = [lower |-> -1, upper |-> 1]
        /\ local.packer.emRange = [lower |-> 0, upper |-> 0]

\* A mask packed after a command line that gives a range in ems after the
\* type.
C13_Witness ==
    /\ PackCalled
    /\ config.imageType = "SOFT_MASK"
    /\ \E t \in Given({"-type"}), r \in Given({"-emrange", "-aemrange"}) : t < r

\* C14 as stated: without -size, -minsize and -dimensions the packer is
\* handed the default scale of 32 pixels per em, in the tight and in the
\* grid layout, whatever the other options are.
C14_DefaultScaleWithoutSizes ==
    (PackCalled /\ Given({"-size", "-minsize", "-dimensions"}) = {}) =>
        /\ ~local.packer.fixedScale
        /\ local.packer.minimumScale = 32

\* C14, amended: without -size, -minsize, -dimensions and -uniformcell the
\* packer is handed the default scale of 32 pixels per em as its minimum
\* scale, in the tight and in the grid layout.
C14_DefaultScaleWithoutSizesAndCell ==
    (PackCalled
     /\ Given({"-size", "-minsize", "-dimensions", "-uniformcell"}) = {}) =>
        /\ ~local.packer.fixedScale
        /\ local.packer.minimumScale = 32

\* A grid layout packed at the default scale.
C14_Witness ==
    /\ PackCalled
    /\ local.packingStyle = "GRID"
    /\ Given({"-size", "-minsize", "-dimensions", "-uniformcell"}) = {}
    /\ local.packer.minimumScale = 32
    /\ Message("default size", "", 0, 0) \in stderr

\* The argument of the last -minsize of the command line.
LastMinSize == local.argv[SetMax(Given({"-minsize"}))].a

\* C15: when -minsize M is given and packing succeeds, the resolved scale
\* is at least M, whatever -size and -dimensions are given with it.
C15_ScaleAtLeastMinSize ==
    (PackCalled /\ local.remaining = 0 /\ pc # "done"
     /\ Given({"-minsize"}) # {}) =>
        config.emSize >= LastMinSize

\* C16: whenever generation runs with the scanline pass enabled, the
\* distance check of the error correction is DO_NOT_CHECK_DISTANCE, for
\* every sequence of -scanline, -noscanline and -errorcorrection options.
C16_ScanlineDisablesDistanceCheck ==
    (atlas # NoAtlas /\ config.scanlinePass) =>
        config.errorCorrection.distanceCheckMode = "DO_NOT_CHECK_DISTANCE"

\* Generation ran with the scanline pass switched on after an error
\* correction mode with a distance check was asked for.
C16_Witness ==
    /\ atlas # NoAtlas /\ config.scanlinePass
    /\ \E e \in Given({"-errorcorrection"}), l \in Given({"-scanline"}) :
         e < l /\ local.argv[e].v = "auto-full"

\* The main body of the run has been reached: the whole command line was
\* read, it named a font and an output, and the fix-up is done.
ConfigurationFixed ==
    /\ pc \notin {"parse", "fixup"}
    /\ local.argPos > Len(local.argv)
    /\ local.fontFilename
    /\ Given({"-arfont", "-imageout", "-json", "-csv"}) # {}

\* The word of the last -errorcorrection of the command line.
LastErrorCorrection == local.argv[SetMax(Given({"-errorcorrection"}))].v

\* The modes with a distance check and the check-free mode of each.
CheckFreeMode ==
    ("auto-mixed" :> "auto-fast") @@ ("auto-full" :> "auto-fast")
    @@ ("distance-full" :> "distance-fast") @@ ("edge-full" :> "edge-fast")
    @@ ("edge" :> "edge-fast")

\* The error correction mode each word of the model's command lines names.
RequestedMode ==
    ("disabled" :> "DISABLED") @@ ("auto-mixed" :> "EDGE_PRIORITY")
    @@ ("auto-fast" :> "EDGE_PRIORITY") @@ ("auto-full" :> "EDGE_PRIORITY")
    @@ ("distance-fast" :> "INDISCRIMINATE") @@ ("distance-full" :> "INDISCRIMINATE")
    @@ ("edge-fast" :> "EDGE_ONLY") @@ ("edge-full" :> "EDGE_ONLY")
    @@ ("edge" :> "EDGE_ONLY")

FallbackMessages == {m \in stderr : m.msg = "fallback"}

\* C17: a downgrade warning is on stderr if and only if the scanline pass
\* is enabled and the error correction mode in effect was asked for with a
\* distance check (auto-mixed, auto-full, distance-full, edge-full or its
\* other name edge); the
\* error correction mode stays the one asked for, and the warning names
\* the check-free mode that matches it.
C17_DowngradeWarning ==
    ConfigurationFixed =>
        LET asked == Given({"-errorcorrection"}) # {}
            checked == asked /\ LastErrorCorrection \in DOMAIN CheckFreeMode
        IN  /\ (FallbackMessages # {}) <=> (config.scanlinePass /\ checked)
            /\ FallbackMessages # {} =>
                 FallbackMessages =
                     {Message("fallback", CheckFreeMode[LastErrorCorrection], 0, 0)}
            /\ asked =>
                 config.errorCorrection.mode = RequestedMode[LastErrorCorrection]
            /\ ~asked => config.errorCorrection.mode = "EDGE_PRIORITY"

\* The warning was given for distance-full, asked for after the scanline
\* pass was switched on.
C17_Witness ==
    /\ ConfigurationFixed
    /\ Message("fallback", "distance-fast", 0, 0) \in stderr
    /\ config.errorCorrection = [mode |-> "INDISCRIMINATE",
                                 distanceCheckMode |-> "DO_NOT_CHECK_DISTANCE"]
    /\ \E l \in Given({"-scanline"}), e \in Given({"-errorcorrection"}) : l < e

\* C18: a run that generates a bitmap calls one makeAtlas instantiation:
\* 1 channel for hardmask, softmask, sdf and psdf, 3 for msdf, 4 for
\* mtsdf; the scanline generator for hardmask, the sdf generator for
\* softmask and sdf, the psdf, msdf and mtsdf generator for psdf, msdf and
\* mtsdf; floating-point storage if and only if the format is tiff, fl32,
\* textfloat, binfloat or binfloatbe, and 8-bit storage otherwise.
C18_OneGeneratorCombination ==
    atlas # NoAtlas =>
        LET type == config.imageType
            float == config.imageFormat \in
                        {"TIFF", "FL32", "TEXT_FLOAT", "BINARY_FLOAT", "BINARY_FLOAT_BE"}
        IN  /\ atlas.N = (IF type = "MSDF" THEN 3 ELSE IF type = "MTSDF" THEN 4 ELSE 1)
            /\ atlas.GEN_FN =
                 (IF type = "HARD_MASK" THEN "scanlineGenerator"
                  ELSE IF type \in {"SOFT_MASK", "SDF"} THEN "sdfGenerator"
                  ELSE IF type = "PSDF" THEN "psdfGenerator"
                  ELSE IF type = "MSDF" THEN "msdfGenerator"
                  ELSE "mtsdfGenerator")
            /\ atlas.T = (IF float THEN "float" ELSE "byte")

\* A soft mask generated into floating-point storage, the format given
\* before the type.
C18_Witness ==
    /\ atlas = [T |-> "float", N |-> 1, GEN_FN |-> "sdfGenerator"]
    /\ config.imageType = "SOFT_MASK"
    /\ config.imageFormat = "BINARY_FLOAT_BE"
    /\ \E f \in Given({"-format"}), t \in Given({"-type"}) : f < t
    /\ pc = "done"

\* The thread count the command line and the machine ask for.
ExpectedThreadCount ==
    LET n == IF Given({"-threads"}) = {} THEN 0
             ELSE local.argv[SetMax(Given({"-threads"}))].a
    IN  IF n > 0 THEN n
        ELSE IF local.hardwareConcurrency > 1 THEN local.hardwareConcurrency
        ELSE 1

\* C19: from the fix-up on, before packing, the thread count is at least 1
\* and stays as it is: N when -threads N with N > 0 is given, and the
\* number of hardware threads detected, but at least 1, when -threads 0 is
\* given or -threads is absent; edge coloring and generation run on that
\* many worker threads.
C19_ThreadCountFixedBeforePacking ==
    ConfigurationFixed =>
        /\ config.threadCount >= 1
        /\ config.threadCount = ExpectedThreadCount
        /\ pc \in {"coloring_parallel", "generating"} =>
             Cardinality(Workers) = ExpectedThreadCount

\* Generation on one worker thread: -threads 0 on a machine whose number
\* of hardware threads is not known.
C19_Witness ==
    /\ ConfigurationFixed
    /\ pc = "generating"
    /\ local.hardwareConcurrency = 0
    /\ \E k \in Given({"-threads"}) : local.argv[k].a = 0
    /\ Cardinality(Workers) = 1

\* C20: the sequential running-seed coloring is never run through the
\* Workload: when expensiveColoring is off no coloring task is ever handed
\* to a worker thread, and while the sequential loop runs the glyphs are
\* colored one after another in order, once each, for every thread count.
C20_SequentialColoringNeverParallel ==
    ~config.expensiveColoring =>
        /\ pc # "coloring_parallel"
        /\ pc = "coloring_sequential" =>
             /\ work = <<>>
             /\ \A i \in Indices :
                  glyphs[i].colorings = (IF i < glyphIt THEN 1 ELSE 0)

\* The sequential loop has colored the first glyph and not yet the second,
\* in a run configured with more than one thread.
C20_Witness ==
    /\ ~config.expensiveColoring
    /\ pc = "coloring_sequential"
    /\ config.threadCount >= 2
    /\ GlyphCount >= 2
    /\ glyphIt = 1
    /\ glyphs[0].colorings = 1 /\ glyphs[1].colorings = 0

\* The argument of the last -spacing of the command line.
LastSpacing == local.argv[SetMax(Given({"-spacing"}))].a

\* C21: when -spacing N with N >= 0 is accepted, the spacing set on the
\* packer is N, for every image type.
C21_SpacingHandedToPacker ==
    (PackCalled /\ Given({"-spacing"}) # {} /\ LastSpacing >= 0) =>
        local.packer.spacing = LastSpacing

\* The names of the sinks invoked so far.
Invoked == {sinks[k] : k \in DOMAIN sinks}

\* An output other than the Artery Font is asked for.
OtherOutputs ==
    \/ config.imageFilename \/ config.jsonFilename
    \/ config.csvFilename \/ config.shadronPreviewFilename

\* C22: the Artery Font sink is invoked only with the resolved image
\* format png, bin or binfloat.  When the format is finalized with an
\* Artery Font asked for and any other format, the request is dropped and
\* the exit status becomes 1; the run goes on to font loading when another
\* output is asked for and ends at once otherwise, and the other requests
\* are left as they are.  With one of the three formats the request stays.
C22_ArteryFontOnlyWithItsFormats ==
    [][/\ "arfont" \in Invoked' =>
            config'.imageFormat \in {"PNG", "BINARY", "BINARY_FLOAT"}
       /\ (pc = "format" /\ config.arteryFontFilename) =>
            IF config'.imageFormat \in {"PNG", "BINARY", "BINARY_FLOAT"}
            THEN config'.arteryFontFilename /\ result' = result /\ pc' = "load"
            ELSE /\ ~config'.arteryFontFilename
                 /\ result' = 1
                 /\ pc' = IF OtherOutputs THEN "load" ELSE "done"
                 /\ OtherOutputs' = OtherOutputs
                 /\ config'.imageFilename = config.imageFilename
                 /\ config'.jsonFilename = config.jsonFilename
                 /\ config'.csvFilename = config.csvFilename
                 /\ config'.shadronPreviewFilename = config.shadronPreviewFilename
       /\ config'.arteryFontFilename # config.arteryFontFilename =>
            pc \in {"parse", "format"}]_vars

\* An Artery Font asked for with -format tiff, dropped, and the JSON file
\* and the image written all the same.
C22_Witness ==
    /\ pc = "done" /\ result = 1
    /\ Given({"-arfont"}) # {} /\ ~config.arteryFontFilename
    /\ config.imageFormat = "TIFF"
    /\ sinks = <<"image", "json">>
    /\ local.failed = {}

\* The order in which the sinks are called.
SinkOrder == <<"image", "arfont", "csv", "json", "shadron">>

\* The place of a sink in that order.
SinkPlace(name) == CHOOSE k \in DOMAIN SinkOrder : SinkOrder[k] = name

\* C23: every output sink is invoked at most once, in the order image,
\* Artery Font, CSV, JSON, Shadron preview, and only when no generation
\* task is running or still to run: a sink is invoked only after
\* generate() has returned with every task run, and no task runs after.
C23_SinksOnceInOrderAfterGeneration ==
    /\ \A j, k \in DOMAIN sinks :
         j < k => SinkPlace(sinks[j]) < SinkPlace(sinks[k])
    /\ sinks # <<>> =>
         /\ pc \in {"arfont", "csv", "json", "shadron", "done"}
         /\ work = <<>>
         /\ atlas # NoAtlas => \A i \in Indices : gen[i].runs = 1
         /\ Invoked \cap {"image", "arfont"} # {} => atlas # NoAtlas
    /\ pc \in {"generate", "generating"} => sinks = <<>>

\* All five sinks invoked, after three generation tasks on two threads.
C23_Witness ==
    /\ pc = "done"
    /\ sinks = SinkOrder
    /\ GlyphCount = 3
    /\ config.threadCount = 2
    /\ \A i \in Indices : gen[i].runs = 1

\* The format finalization is done.
FormatFinalized == ConfigurationFixed /\ pc # "format"

\* The format of each image file name of the model that ends in one of
\* .png, .bmp, .tiff, .tif, .rgba, .fl32, .txt, .bin, whatever the case.
FormatOfExtension ==
    ("a.png" :> "PNG") @@ ("A.PNG" :> "PNG") @@ ("a.bmp" :> "BMP")
    @@ (".bmp" :> "BMP") @@ ("a.tiff" :> "TIFF") @@ ("a.Tif" :> "TIFF")
    @@ ("a.rgba" :> "RGBA") @@ ("a.fl32" :> "FL32") @@ ("a.FL32" :> "FL32")
    @@ ("a.txt" :> "TEXT") @@ ("a.bin" :> "BINARY")

\* The name of the last -imageout of the command line.
LastImageOut == local.argv[SetMax(Given({"-imageout"}))].v

\* C24: without -format, the image format is the one of the extension of
\* the -imageout file when no Artery Font is asked for and the extension is
\* one the program knows, in any case of letters; it is png in every other
\* case.
C24_FormatInferredFromExtension ==
    (FormatFinalized /\ Given({"-format"}) = {}) =>
        config.imageFormat =
            (IF Given({"-arfont"}) = {} /\ Given({"-imageout"}) # {}
                /\ LastImageOut \in DOMAIN FormatOfExtension
             THEN FormatOfExtension[LastImageOut]
             ELSE "PNG")

\* TIFF inferred from a.Tif given after a.bmp.
C24_Witness ==
    /\ FormatFinalized /\ Given({"-format"}) = {}
    /\ Cardinality(Given({"-imageout"})) = 2
    /\ LastImageOut = "a.Tif"
    /\ config.imageFormat = "TIFF"
    /\ local.floatingPointFormat

\* The run is past the edge-coloring block of main().
PastColoring ==
    \/ pc \in {"generate", "generating", "image", "arfont", "csv", "json", "shadron"}
    \/ pc = "done" /\ PackCalled /\ config.width > 0

\* An image or an Artery Font that the format allows is asked for.
BitmapOutput == config.imageFilename \/ config.arteryFontFilename

AnyColored == \E i \in Indices : glyphs[i].colorings > 0

BitmapGenerated == atlas # NoAtlas \/ \E i \in Indices : gen[i].runs > 0

\* The first half of C25: edge coloring is invoked on the glyphs if and
\* only if the image type is msdf or mtsdf and a bitmap output is asked for.
ColoredIffMultiChannelBitmap ==
    /\ FormatFinalized /\ AnyColored =>
         config.imageType \in {"MSDF", "MTSDF"} /\ BitmapOutput
    /\ PastColoring =>
         ((\A i \in Indices : glyphs[i].colorings = 1)
            <=> (config.imageType \in {"MSDF", "MTSDF"} /\ BitmapOutput))

\* C25 as stated: edge coloring is invoked if and only if the type is msdf
\* or mtsdf and a bitmap output is asked for; for single-channel types and
\* for layout-only runs no glyph is colored and no bitmap is generated.
C25_NoColoringNoBitmap ==
    /\ ColoredIffMultiChannelBitmap
    /\ (FormatFinalized
        /\ (config.imageType \notin {"MSDF", "MTSDF"} \/ ~BitmapOutput)) =>
           ~AnyColored /\ ~BitmapGenerated

\* C25, amended: edge coloring is invoked if and only if the type is msdf
\* or mtsdf and a bitmap output is asked for; for single-channel types no
\* glyph is colored, and for layout-only runs no glyph is colored and no
\* bitmap is generated.
C25_NoColoringAndNoBitmapWhenLayoutOnly ==
    /\ ColoredIffMultiChannelBitmap
    /\ (FormatFinalized /\ config.imageType \notin {"MSDF", "MTSDF"}) => ~AnyColored
    /\ (FormatFinalized /\ ~BitmapOutput) => ~AnyColored /\ ~BitmapGenerated

\* An msdf run with an Artery Font as its only bitmap output: every glyph
\* colored once, the bitmap generated, the Artery Font and the JSON file
\* written.
C25_Witness ==
    /\ pc = "done" /\ PackCalled /\ config.width > 0
    /\ config.imageType = "MSDF"
    /\ ~config.imageFilename /\ config.arteryFontFilename
    /\ \A i \in Indices : glyphs[i].colorings = 1
    /\ BitmapGenerated
    /\ sinks = <<"arfont", "json">>

\* The positions of the coloring options that name a strategy.
KnownColorings ==
    {k \in Given({"-coloringstrategy", "-edgecoloring"}) :
        local.argv[k].v \in {"simple", "inktrap", "distance"}}

\* The strategy in effect: the last one named, inktrap when none is.
ColoringInEffect ==
    IF KnownColorings = {} THEN "inktrap" ELSE local.argv[SetMax(KnownColorings)].v

\* C26: after any sequence of -coloringstrategy and -edgecoloring options,
\* words that name no strategy among them, the coloring function is the one
\* named last (inktrap when none is), expensiveColoring is set if and only
\* if that is distance, and the glyphs are colored through the Workload
\* with the per-index seed if and only if it is distance, and one after
\* another with the running seed for simple and inktrap.
C26_ParallelPolicyIffDistance ==
    ConfigurationFixed =>
        /\ config.edgeColoring =
             (CASE ColoringInEffect = "simple" -> "edgeColoringSimple"
                [] ColoringInEffect = "inktrap" -> "edgeColoringInkTrap"
                [] ColoringInEffect = "distance" -> "edgeColoringByDistance")
        /\ config.expensiveColoring <=> ColoringInEffect = "distance"
        /\ pc = "coloring_parallel" => ColoringInEffect = "distance"
        /\ pc = "coloring_sequential" => ColoringInEffect \in {"simple", "inktrap"}

\* The Workload colors the glyphs after -edgecoloring distance followed by
\* a word that names no strategy.
C26_Witness ==
    /\ ConfigurationFixed
    /\ pc = "coloring_parallel"
    /\ \E d \in KnownColorings :
         /\ local.argv[d] = Option("-edgecoloring", "distance", 0, 0)
         /\ \E u \in Given({"-coloringstrategy"}) :
              d < u /\ local.argv[u].v = "fast"

\* The run has ended after a packing that succeeded.
RunCompleted == pc = "done" /\ PackCalled /\ local.remaining = 0 /\ config.width > 0

\* The outputs asked for when the sinks are reached.
Requested ==
    {n \in {"image"} : config.imageFilename}
    \cup {n \in {"arfont"} : config.arteryFontFilename}
    \cup {n \in {"csv"} : config.csvFilename}
    \cup {n \in {"json"} : config.jsonFilename}
    \cup {n \in {"shadron"} : config.shadronPreviewFilename}

\* The Artery Font asked for on the command line was dropped for its format.
ArfontRejected == Given({"-arfont"}) # {} /\ ~config.arteryFontFilename

\* The Shadron preview is asked for and no glyph was loaded by code point.
ShadronRefused == config.shadronPreviewFilename /\ ~local.anyCodepointsAvailable

\* C27 as stated: once packing has succeeded, every requested sink is
\* invoked, and the exit status is 1 if and only if the Artery Font was
\* rejected or a sink failed, and 0 otherwise.
C27_EverySinkAttempted ==
    RunCompleted =>
        /\ Invoked = Requested
        /\ result \in {0, 1}
        /\ result = 1 <=> (ArfontRejected \/ local.failed # {})

\* C27 with the refusal: once packing has succeeded, every requested sink is
\* invoked whatever the earlier sinks returned, except the Shadron preview
\* when no glyph was loaded by code point, which is refused without being
\* invoked; the exit status is 1 if and only if the Artery Font was
\* rejected, a sink failed or the preview was refused, and 0 otherwise.
C27_EverySinkAttemptedButRefusedPreview ==
    RunCompleted =>
        /\ Invoked = Requested \ {n \in {"shadron"} : ShadronRefused}
        /\ result \in {0, 1}
        /\ result = 1 <=> (ArfontRejected \/ local.failed # {} \/ ShadronRefused)

\* The image could not be saved, the three sinks after it were invoked and
\* wrote their files, and the preview was refused.
C27_Witness ==
    /\ RunCompleted
    /\ local.failed = {"image"}
    /\ sinks = <<"image", "arfont", "csv", "json">>
    /\ ShadronRefused
    /\ result = 1

\* The positions of -dimensions and of the size-constraint options.
SizeOptionsGiven == Given({"-dimensions"} \cup DOMAIN ConstraintOptions)

\* The constraint given last; without one, the default of the layout.
ConstraintInEffect ==
    LET given == Given(DOMAIN ConstraintOptions)
    IN  IF given # {} THEN ConstraintOptions[local.argv[SetMax(given)].opt]
        ELSE IF local.packingStyle = "TIGHT" THEN "MULTIPLE_OF_FOUR_SQUARE"
        ELSE "NONE"

\* C28: the packer is given the fixed dimensions W x H if and only if
\* -dimensions W H comes after every size-constraint option, and otherwise
\* the constraint given last (for the tight layout, square with a side
\* divisible by four when none is given); one of the two, never both.
C28_LastSizeOptionDecides ==
    PackCalled =>
        IF /\ SizeOptionsGiven # {}
           /\ local.argv[SetMax(SizeOptionsGiven)].opt = "-dimensions"
        THEN /\ local.packer.fixedDimensions
             /\ local.packer.dimensions =
                  <<local.argv[SetMax(SizeOptionsGiven)].a,
                    local.argv[SetMax(SizeOptionsGiven)].b>>
             /\ local.packer.dimensionsConstraint = ""
        ELSE /\ ~local.packer.fixedDimensions
             /\ local.packer.dimensions = <<>>
             /\ local.packer.dimensionsConstraint = ConstraintInEffect

\* The first of the inputs from k onwards for which has holds, and k when
\* there is none.
NearestFollowing(inputs, k, has(_)) ==
    LET F == {j \in k..Len(inputs) : has(inputs[j])}
    IN  IF F = {} THEN k ELSE CHOOSE j \in F : \A i \in F : j <= i

FontGiven(input) == input.fontFilename # NoString

GlyphSetGiven(input) ==
    \/ input.charsetFilename # NoString
    \/ input.charsetString # NoString
    \/ input.glyphIdentifierType = "GLYPH_INDEX"

GlyphSetOf(input) ==
    <<input.charsetFilename, input.charsetString, input.glyphIdentifierType>>

ScaleGiven(input) == input.fontScale >= 0

\* The finalized list final against the inputs as the command line gave
\* them: those closed by -and, and the one open at the end.
InheritedFromFollowing(final, given) ==
    /\ Len(final) \in {Len(given) - 1, Len(given)}
    /\ \A k \in DOMAIN final :
         /\ final[k].fontFilename # NoString
         /\ final[k].fontFilename =
              given[NearestFollowing(given, k, FontGiven)].fontFilename
         /\ GlyphSetOf(final[k]) =
              GlyphSetOf(given[NearestFollowing(given, k, GlyphSetGiven)])
         /\ final[k].fontScale =
              given[NearestFollowing(given, k, ScaleGiven)].fontScale
         /\ final[k].fontName = given[k].fontName
         /\ final[k].variableFont = given[k].variableFont

\* C29: when the command line gets as far as font loading, every entry of
\* the finalized list of font inputs has a font filename, and the list is
\* the inputs as given, each with the font filename, the glyph set and the
\* font scale it did not name taken from the nearest following input that
\* names one.
C29_EveryFontInputHasFont ==
    /\ [](pc \in {"fixup", "format", "load", "pack"} =>
            /\ local.fontInputs # <<>>
            /\ \A k \in DOMAIN local.fontInputs :
                 local.fontInputs[k].fontFilename # NoString)
    /\ [][(pc = "parse" /\ pc' = "fixup") =>
            InheritedFromFollowing(local'.fontInputs,
                                   Append(local.fontInputs, local.fontInput))]_vars

\* Font loading is reached with three inputs; the first named only a scale
\* and the second only a glyph set, and the font of both is the one named
\* after the last -and.
C29_Witness ==
    /\ pc = "load"
    /\ Len(local.argv) = 6
    /\ local.argv[1].opt = "-fontscale" /\ local.argv[2].opt = "-and"
    /\ local.argv[3].opt = "-allglyphs" /\ local.argv[4].opt = "-and"
    /\ local.argv[5].opt = "-font"
    /\ Len(local.fontInputs) = 3
    /\ \A k \in 1..3 : local.fontInputs[k].fontFilename = 5
    /\ local.fontInputs[1].glyphIdentifierType = "GLYPH_INDEX"
    /\ local.fontInputs[1].fontScale = 2

\* The options that change the font, the glyph set or the scale of the
\* open input.
ChangingOptions ==
    {"-font", "-varfont", "-charset", "-glyphset", "-chars", "-glyphs",
     "-allglyphs", "-fontscale"}

\* The -and at position k follows another -and with no such option between.
NothingChangedSinceAnd(k) ==
    \E j \in Given({"-and"}) :
        /\ j < k
        /\ \A i \in (j + 1)..(k - 1) : local.argv[i].opt \notin ChangingOptions

\* What a pointer into argv points at.
Text(p) == IF p = NoString THEN "" ELSE local.argv[p].v

\* Two font inputs with the same font, glyph set and font scale.
SameFontCharsetScale(a, b) ==
    /\ Text(a.fontFilename) = Text(b.fontFilename)
    /\ Text(a.charsetFilename) = Text(b.charsetFilename)
    /\ Text(a.charsetString) = Text(b.charsetString)
    /\ a.glyphIdentifierType = b.glyphIdentifierType
    /\ a.fontScale = b.fontScale

\* C30: when -and is reached and no option has changed the font, the glyph
\* set or the font scale since the -and before it, the program ends with
\* exit status 1; and no two consecutive font inputs have the same font,
\* glyph set and font scale.
C30_AndWithoutChangeAborts ==
    /\ [][(/\ pc = "parse"
           /\ local.argPos <= Len(local.argv)
           /\ local.argv[local.argPos].opt = "-and"
           /\ NothingChangedSinceAnd(local.argPos))
          => (pc' = "done" /\ result' = 1)]_vars
    /\ [](\A k \in DOMAIN local.fontInputs :
            k > 1 => ~SameFontCharsetScale(local.fontInputs[k - 1],
                                           local.fontInputs[k]))

====
